---------------------------- MODULE Spec2Model ----------------------------
(***************************************************************************)
(* Behaviour-analysis and gait-buffer services of the ai-service:          *)
(*   src/ai-service/behavior_analysis.py  EnhancedBehaviorAnalysisService  *)
(*   src/ai-service/gait_detection.py     GaitDetectionService             *)
(*                                                                         *)
(* Conventions.                                                            *)
(*  - Pixel coordinates are integers; keypoint confidences are integers in *)
(*    hundredths (0.5 is 50, 1.0 is 100).                                  *)
(*  - A keypoints array (numpy, one row per slot) is a sequence of rows    *)
(*    <<x, y, confidence>>.  Python indexes rows from 0, TLA+ sequences    *)
(*    from 1: KpAt(kp, idx) is kp[idx] of the source.  An index past the   *)
(*    end is the IndexError of the source; the ..._faults predicate of a   *)
(*    rule tells when the rule's try block raises it.                      *)
(*  - A video frame is identified with what the pose model does on it:     *)
(*    it raises, or it returns the list of the detected persons' arrays.   *)
(*  - Bounding-box centres are kept doubled (x1 + x2, y1 + y2) so that     *)
(*    they stay integral; thresholds on them are doubled accordingly.      *)
(*  - Timestamps of behaviour frames are kept in units of 1/30 s           *)
(*    (i / 30.0 in the source is i here).  Wall-clock time is in seconds.  *)
(***************************************************************************)
EXTENDS Integers, Sequences, FiniteSets, TLC

VARIABLES
    behavior_history,   \* person_id -> deque(maxlen=300) of pose_data
    alert_cooldown,     \* alert_key -> time of the last recorded alert
    now,                \* datetime.now(), seconds
    result,             \* what the last analyze_behavior call returned
    gait_buffer,        \* person_id -> deque(maxlen=max_frames) of frame_data
    gait_ret,           \* what the last add_frame_to_buffer call returned
    lastOp,             \* the operation performed by the last step
    appended,           \* history: person_id -> pose_data appended since the buffer was created
    gait_appended,      \* history: the same for the gait buffers
    alert_log,          \* history: alert_key -> times at which an alert was emitted
    evals,              \* history: outcome of every rule evaluation of the last batch
    service,            \* which of the two service objects the client of this run drives
    budget,             \* calls the client may still make, per kind
    calls,              \* the analyze_behavior calls in flight: camera_id -> locals of the call
    stats,              \* what the last get_behavior_statistics call returned
    probe,              \* a helper method under test: its name, its arguments, what it returned
    streams             \* the stream processor: its dicts, the stream_config objects, the capture threads

vars == <<behavior_history, alert_cooldown, now, result, gait_buffer, gait_ret,
          lastOp, appended, gait_appended, alert_log, evals, service, budget,
          calls, stats, probe, streams>>

-----------------------------------------------------------------------------
(* Generic helpers *)

Abs(a) == IF a < 0 THEN -a ELSE a
Min2(a, b) == IF a <= b THEN a ELSE b
Max2(a, b) == IF a >= b THEN a ELSE b

\* sum of f[lo..hi], by halving (keeps the evaluation depth logarithmic)
RECURSIVE SumFn(_, _, _)
SumFn(f, lo, hi) ==
    IF lo > hi THEN 0
    ELSE IF lo = hi THEN f[lo]
    ELSE SumFn(f, lo, (lo + hi) \div 2) + SumFn(f, (lo + hi) \div 2 + 1, hi)

\* the sequence f[1..n], every element computed once
Listed(f) == f \o << >>

\* floor of the square root
RECURSIVE ISqrtIn(_, _, _)
ISqrtIn(n, lo, hi) ==
    IF lo >= hi THEN lo
    ELSE IF ((lo + hi + 1) \div 2) * ((lo + hi + 1) \div 2) <= n
         THEN ISqrtIn(n, (lo + hi + 1) \div 2, hi)
         ELSE ISqrtIn(n, lo, (lo + hi + 1) \div 2 - 1)

ISqrt(n) == IF n <= 0 THEN 0 ELSE ISqrtIn(n, 0, Min2(n, 46340))

\* np.linalg.norm of an integer vector: exact when the vector is axis-aligned
\* or its length is an integer, rounded down otherwise
Norm(dx, dy) ==
    IF dy = 0 THEN Abs(dx)
    ELSE IF dx = 0 THEN Abs(dy)
    ELSE ISqrt(dx * dx + dy * dy)

\* a * b < c * d for naturals, the products never formed (they may pass 2^31):
\* a / d < c / b, compared by integer parts and then by the remainders
RECURSIVE FracLess(_, _, _, _)
FracLess(a, d, c, b) ==
    IF a \div d # c \div b THEN a \div d < c \div b
    ELSE IF c % b = 0 THEN FALSE
    ELSE IF a % d = 0 THEN TRUE
    ELSE FracLess(b, c % b, d, a % d)

ProdLess(a, b, c, d) ==
    IF b = 0 \/ a = 0 THEN c > 0 /\ d > 0
    ELSE IF c = 0 \/ d = 0 THEN FALSE
    ELSE FracLess(a, d, c, b)

\* the last n elements of s (s[-n:] of the source, n > 0)
LastN(s, n) == IF Len(s) <= n THEN s ELSE SubSeq(s, Len(s) - n + 1, Len(s))

\* d[key] = value of a Python dict
Put(d, key, value) == IF key \in DOMAIN d THEN [d EXCEPT ![key] = value] ELSE d @@ (key :> value)

\* d.get(key, default)
Get(d, key, default) == IF key \in DOMAIN d THEN d[key] ELSE default

\* del d[key]
Del(d, key) == [k \in DOMAIN d \ {key} |-> d[k]]

-----------------------------------------------------------------------------
(* Program constants *)

FPS == 30                       \* "Assuming 30 FPS"
BehaviorMaxLen == 300           \* deque(maxlen=300)
MinHistory == 30                \* len(history) > 30
MinEval == 10                   \* len(history) < 10
MinFrames == 3                  \* len(frames) < 3
cooldown_duration == 120        \* timedelta(minutes=2)
ConfFloor == 50                 \* keypoint confidence > 0.5
BBoxPadding == 20
NumSlots == 17                  \* keypoints per person
max_frames == 90                \* gait buffer capacity
min_frames == 30                \* gait frames for analysis

\* self.keypoint_map (0-based row numbers)
keypoint_map == [nose |-> 0, left_eye |-> 1, right_eye |-> 2, left_ear |-> 3, right_ear |-> 4,
                 left_shoulder |-> 5, right_shoulder |-> 6, left_elbow |-> 7, right_elbow |-> 8,
                 left_wrist |-> 9, right_wrist |-> 10, left_hip |-> 11, right_hip |-> 12,
                 left_knee |-> 13, right_knee |-> 14, left_ankle |-> 15, right_ankle |-> 16]

\* self.behavior_rules: min_duration in seconds and the parameters
behavior_rules ==
    [loitering |-> [threat_level |-> "medium", min_duration |-> 120,
                    movement_threshold |-> 50, position_variance_threshold |-> 30],
     fighting  |-> [threat_level |-> "high", min_duration |-> 3,
                    motion_threshold |-> 200, pose_variance_threshold |-> 100],
     falling   |-> [threat_level |-> "high", min_duration |-> 1,
                    vertical_velocity_threshold |-> 150, pose_angle_threshold |-> 45],
     concealment |-> [threat_level |-> "medium", min_duration |-> 5,
                    hand_proximity_threshold |-> 40, concealment_duration_threshold |-> 3],
     running   |-> [threat_level |-> "medium", min_duration |-> 2, speed_threshold |-> 300],
     crowd_formation |-> [threat_level |-> "medium", min_duration |-> 10,
                    proximity_threshold |-> 100, min_people_count |-> 5,
                    density_threshold |-> 70],
     erratic_movement |-> [threat_level |-> "medium", min_duration |-> 5,
                    direction_change_threshold |-> 6, speed_variance_threshold |-> 150]]

-----------------------------------------------------------------------------
(* Keypoint arrays and pose data *)

\* len(keypoints)
KpLen(kp) == Len(kp)

\* keypoints[idx] (0-based): <<x, y, confidence>>
KpAt(kp, idx) == kp[idx + 1]

\* is keypoints[idx] confident
Confident(kp, idx) == kp[idx + 1][3] > ConfFloor

\* np.min / np.max of a non-empty set of coordinates
SetMin(S) == CHOOSE m \in S : \A n \in S : m <= n
SetMax(S) == CHOOSE m \in S : \A n \in S : m >= n

\* the bounding box around the rows ok of kp, with the padding
BBoxOf(kp, ok) ==
    << SetMin({kp[i][1] : i \in ok}) - BBoxPadding,
       SetMin({kp[i][2] : i \in ok}) - BBoxPadding,
       SetMax({kp[i][1] : i \in ok}) + BBoxPadding,
       SetMax({kp[i][2] : i \in ok}) + BBoxPadding >>

\* _keypoints_to_bbox: [x1, y1, x2, y2] around the confident keypoints
keypoints_to_bbox(kp) ==
    IF \A i \in 1..Len(kp) : ~(kp[i][3] > ConfFloor)
    THEN <<0, 0, 100, 100>>
    ELSE BBoxOf(kp, {i \in 1..Len(kp) : kp[i][3] > ConfFloor})

\* _get_center_point, doubled: (x1 + x2, y1 + y2)
get_center_point(bbox) == <<bbox[1] + bbox[3], bbox[2] + bbox[4]>>

\* np.mean(person_keypoints[:, 2]), hundredths rounded down
MeanConfidence(kp) == SumFn([i \in 1..Len(kp) |-> kp[i][3]], 1, Len(kp)) \div Len(kp)

\* a person id that leaves the camera out
PersonIdNoCamera(camera_id, person_idx) == <<"cam", person_idx>>

\* f"{camera_id}_person_{person_idx}"
PersonId(camera_id, person_idx) == <<camera_id, person_idx>>

\* the pose_data dict stored for one detection
PoseData(i, person_id, kp) ==
    [frame_idx |-> i, timestamp |-> i, person_id |-> person_id, keypoints |-> kp,
     bbox |-> keypoints_to_bbox(kp), confidence |-> MeanConfidence(kp)]

\* a bounded buffer that refuses the new element when full
DequeAppendDropNewest(d, x, cap) == IF Len(d) >= cap THEN d ELSE Append(d, x)

\* deque(maxlen=cap).append(x): the oldest element leaves when the deque is full
DequeAppend(d, x, cap) ==
    IF Len(d) >= cap THEN Append(Tail(d), x) ELSE Append(d, x)

-----------------------------------------------------------------------------
(* Per-person rules.  Each takes history = list(self.behavior_history[id]) *)
(* and returns what the source returns.  A rule's ..._faults predicate     *)
(* tells when its try block raises (an IndexError on a short keypoints     *)
(* array); the except branch then returns False / None.                    *)

\* doubled distance between the bbox centres of two pose_data
CentreDist2(a, b) ==
    Norm((b.bbox[1] + b.bbox[3]) - (a.bbox[1] + a.bbox[3]),
         (b.bbox[2] + b.bbox[4]) - (a.bbox[2] + a.bbox[4]))

\* k * k * np.var(m[1..k]), computed on the deviations from c (the variance
\* does not depend on c; a c near the mean keeps the products small)
VarAround(m, k, c) ==
    k * SumFn([i \in 1..k |-> (m[i] - c) * (m[i] - c)], 1, k)
      - SumFn([i \in 1..k |-> m[i] - c], 1, k) * SumFn([i \in 1..k |-> m[i] - c], 1, k)

VarTimesK2(m, k) == IF k = 0 THEN 0 ELSE VarAround(m, k, SumFn(m, 1, k) \div k)

\* the doubled centres' x (c = 1) or y (c = 2) coordinates along history
CentreCoords(history, c) ==
    Listed([i \in 1..Len(history) |-> history[i].bbox[c] + history[i].bbox[c + 2]])

\* the sums of the deviations of m[1..k] from c, and of their squares
SumAround(m, k, c) == SumFn([i \in 1..k |-> m[i] - c], 1, k)
SqAround(m, k, c) == SumFn([i \in 1..k |-> (m[i] - c) * (m[i] - c)], 1, k)

\* np.sum(np.var(position_array, axis=0)) < threshold for k positions, from
\* the sums of their doubled coordinates' deviations from a point near the
\* mean (tx, ty) and of the squares of these (sq):
\* k * sq - (tx^2 + ty^2) < 4 * threshold * k^2, the product k * sq never formed
VarianceBelow(sq, tx, ty, k, threshold) ==
    sq <= (4 * threshold * k * k + tx * tx + ty * ty - 1) \div k

\* total_variance < position_variance_threshold on the doubled centres
LoiteringVariance(xs, ys, k, cx, cy) ==
    VarianceBelow(SqAround(xs, k, cx) + SqAround(ys, k, cy), SumAround(xs, k, cx), SumAround(ys, k, cy),
                  k, behavior_rules.loitering.position_variance_threshold)

\* avg_movement < movement_threshold
LoiteringMovement(history) ==
    SumFn([i \in 2..Len(history) |-> CentreDist2(history[i - 1], history[i])], 2, Len(history))
      < 2 * behavior_rules.loitering.movement_threshold * Max2(Len(history) - 1, 1)

\* a return expression without the test of the variance
LoiteringTestMovementOnly(history, xs, ys) == LoiteringMovement(history)

\* the return expression of _is_loitering
LoiteringTest(history, xs, ys) ==
    /\ LoiteringMovement(history)
    /\ LoiteringVariance(xs, ys, Len(history),
                         SumFn(xs, 1, Len(history)) \div Len(history),
                         SumFn(ys, 1, Len(history)) \div Len(history))

\* _is_loitering
is_loitering(history) ==
    IF Len(history) < behavior_rules.loitering.min_duration * FPS THEN FALSE
    ELSE LoiteringTest(history, CentreCoords(history, 1), CentreCoords(history, 2))

\* total_motion of the six upper-body joints between two frames of _is_fighting
UpperBodyMotion(prev_kp, curr_kp) ==
    SumFn([idx \in 5..10 |->
             IF Confident(prev_kp, idx) /\ Confident(curr_kp, idx)
             THEN Norm(curr_kp[idx + 1][1] - prev_kp[idx + 1][1],
                       curr_kp[idx + 1][2] - prev_kp[idx + 1][2])
             ELSE 0], 5, 10)

\* the IndexError of the motion loop of _is_fighting on one pair of frames
MotionFaults(prev_kp, curr_kp) ==
    IF KpLen(prev_kp) > 10 /\ KpLen(curr_kp) > 10 THEN FALSE
    ELSE \E idx \in 5..10 :
            \/ KpLen(prev_kp) <= idx
            \/ (Confident(prev_kp, idx) /\ KpLen(curr_kp) <= idx)

\* np.var of the distances d of the g confident keypoints from their centroid
SpreadOf(d, g) == VarTimesK2(d, g) \div (g * g)

\* the distances of the confident rows ok of kp from (cx, cy)
SpreadDistances(kp, ok, cx, cy) ==
    Listed([i \in 1..Len(ok) |-> Norm(kp[ok[i]][1] - cx, kp[ok[i]][2] - cy)])

\* stability of one frame (centroid and distances rounded down)
SpreadAround(kp, ok) ==
    SpreadOf(SpreadDistances(kp, ok,
                             SumFn([i \in 1..Len(ok) |-> kp[ok[i]][1]], 1, Len(ok)) \div Len(ok),
                             SumFn([i \in 1..Len(ok) |-> kp[ok[i]][2]], 1, Len(ok)) \div Len(ok)),
             Len(ok))

\* the rows of kp with confidence above 0.5
ConfidentRows(kp) == SelectSeq([i \in 1..Len(kp) |-> i], LAMBDA i : kp[i][3] > ConfFloor)

\* the pose_stability_scores entry of one frame, -1 when the frame has none
PoseSpreadOn(kp, ok) == IF Len(ok) > 8 THEN SpreadAround(kp, ok) ELSE -1

PoseSpread(kp) == PoseSpreadOn(kp, ConfidentRows(kp))

\* pose_instability > 500, spread being PoseSpread along the window
InstabilityOver500(spread) ==
    /\ \E i \in 1..Len(spread) : spread[i] >= 0
    /\ SumFn([i \in 1..Len(spread) |-> IF spread[i] >= 0 THEN spread[i] ELSE 0], 1, Len(spread))
         > 500 * Cardinality({i \in 1..Len(spread) : spread[i] >= 0})

\* a return expression without the test of the pose instability
FightingTestMotionOnly(m, k, recent) ==
    /\ SumFn(m, 1, k) > behavior_rules.fighting.motion_threshold * k
    /\ VarTimesK2(m, k) > behavior_rules.fighting.pose_variance_threshold * k * k

\* the return expression of _is_fighting on the motion scores m[1..k]
FightingTest(m, k, recent) ==
    /\ SumFn(m, 1, k) > behavior_rules.fighting.motion_threshold * k
    /\ VarTimesK2(m, k) > behavior_rules.fighting.pose_variance_threshold * k * k
    /\ InstabilityOver500(Listed([i \in 1..Len(recent) |-> PoseSpread(recent[i].keypoints)]))

\* the IndexError of _is_fighting
is_fighting_faults(history) ==
    /\ ~(Len(history) < behavior_rules.fighting.min_duration * FPS)
    /\ \E i \in (Len(history) - behavior_rules.fighting.min_duration * FPS + 2)..Len(history) :
          MotionFaults(history[i - 1].keypoints, history[i].keypoints)

\* the try block of _is_fighting on recent_frames, when it does not raise
FightingOn(recent) ==
    FightingTest(Listed([i \in 1..(Len(recent) - 1) |->
                           UpperBodyMotion(recent[i].keypoints, recent[i + 1].keypoints)]),
                 Len(recent) - 1, recent)

\* _is_fighting
is_fighting(history) ==
    IF Len(history) < behavior_rules.fighting.min_duration * FPS THEN FALSE
    ELSE IF is_fighting_faults(history) THEN FALSE
    ELSE FightingOn(LastN(history, behavior_rules.fighting.min_duration * FPS))

\* _calculate_body_angle(keypoints) > 45 degrees, for the doubled body vector
\* (bx, by) from the hip centre to the shoulder centre; the angle is nan,
\* greater than nothing, for the zero vector
AngleOver45(bx, by) ==
    /\ ~(bx = 0 /\ by = 0)
    \* cos(angle) = -by / |b| < cos(45 deg)
    /\ (by >= 0 \/ 2 * by * by < bx * bx + by * by)

\* the same on the four rows; _calculate_body_angle returns 0 when one of
\* them is below the confidence floor
BodyAngleOn(ls, rs, lh, rh) ==
    /\ ~(ls[3] < ConfFloor \/ rs[3] < ConfFloor \/ lh[3] < ConfFloor \/ rh[3] < ConfFloor)
    /\ AngleOver45((ls[1] + rs[1]) - (lh[1] + rh[1]), (ls[2] + rs[2]) - (lh[2] + rh[2]))

\* body_angle > pose_angle_threshold; _calculate_body_angle returns 0 when
\* the array is too short
BodyAngleOver45(kp) ==
    IF KpLen(kp) <= keypoint_map.right_hip THEN FALSE
    ELSE BodyAngleOn(KpAt(kp, keypoint_map.left_shoulder), KpAt(kp, keypoint_map.right_shoulder),
                     KpAt(kp, keypoint_map.left_hip), KpAt(kp, keypoint_map.right_hip))

\* the IndexError of _detect_fall: a frame of the window without hip rows
detect_fall_faults(history) ==
    /\ ~(Len(history) < 10)
    /\ \E i \in (Len(history) - 9)..Len(history) : KpLen(history[i].keypoints) <= keypoint_map.right_hip

\* the frames of recent whose two hips are confident (hip_heights has one
\* entry for each)
HipFrames(recent) ==
    SelectSeq([i \in 1..Len(recent) |-> i],
              LAMBDA i : /\ Confident(recent[i].keypoints, keypoint_map.left_hip)
                         /\ Confident(recent[i].keypoints, keypoint_map.right_hip))

\* hip_center_y of a frame, doubled
HipY2(frame) ==
    KpAt(frame.keypoints, keypoint_map.left_hip)[2] + KpAt(frame.keypoints, keypoint_map.right_hip)[2]

\* what _detect_fall decides from the two indicators
FallDecision(fast, tilted) ==
    [fired |-> fast /\ tilted,
     indicators |-> (IF fast THEN 1 ELSE 0) + (IF tilted THEN 1 ELSE 0),
     severity |-> IF tilted THEN "severe" ELSE IF fast THEN "moderate" ELSE "minor"]

NoFall == [fired |-> FALSE, indicators |-> 0, severity |-> "minor"]

\* the try block of _detect_fall on recent = history[-10:], hips being its
\* frames with confident hips
FallOn(recent, hips) ==
    IF Len(hips) < 5 THEN NoFall
    ELSE FallDecision(\* vertical_velocity = height_change / max(len / 30, 0.1) > threshold
                      (HipY2(recent[hips[Len(hips)]]) - HipY2(recent[hips[1]])) * FPS
                         > 2 * behavior_rules.falling.vertical_velocity_threshold * Max2(Len(hips), 3),
                      BodyAngleOver45(recent[Len(recent)].keypoints))

\* _detect_fall: fired iff a result dict is returned
detect_fall(history) ==
    IF Len(history) < 10 \/ detect_fall_faults(history) THEN NoFall
    ELSE FallOn(LastN(history, 10), HipFrames(LastN(history, 10)))

\* the three proximity tests of _detect_concealment for one hand, given the
\* rows of its wrist w, hip h and shoulder sh and of the two hips lh, rh:
\* <<pocket, waistband, jacket>>, 1 where the score is incremented
HandTests(w, h, sh, lh, rh, t) ==
    << IF (w[1] - h[1]) * (w[1] - h[1]) + (w[2] - h[2]) * (w[2] - h[2]) < t * t THEN 1 ELSE 0,
       \* distance to the mid-hip point below 0.8 * t (all lengths times 10)
       IF (10 * w[1] - 5 * (lh[1] + rh[1])) * (10 * w[1] - 5 * (lh[1] + rh[1]))
          + (10 * w[2] - 5 * (lh[2] + rh[2])) * (10 * w[2] - 5 * (lh[2] + rh[2])) < 64 * t * t
       THEN 1 ELSE 0,
       \* chest_y = shoulder_y + (hip_y - shoulder_y) * 0.6 (all lengths times 5)
       IF 25 * (w[1] - sh[1]) * (w[1] - sh[1])
          + (5 * w[2] - (5 * sh[2] + 3 * (h[2] - sh[2]))) * (5 * w[2] - (5 * sh[2] + 3 * (h[2] - sh[2])))
          < 25 * t * t
       THEN 1 ELSE 0 >>

\* the increments of one hand of one frame (wi, hi, si: its wrist, hip and
\* shoulder rows)
HandNear(kp, wi, hi, si) ==
    IF ~(Confident(kp, wi) /\ Confident(kp, hi) /\ Confident(kp, si)) THEN <<0, 0, 0>>
    ELSE HandTests(KpAt(kp, wi), KpAt(kp, hi), KpAt(kp, si),
                   KpAt(kp, keypoint_map.left_hip), KpAt(kp, keypoint_map.right_hip),
                   behavior_rules.concealment.hand_proximity_threshold)

\* the IndexError of _detect_concealment on one hand of one frame
HandFaults(kp, wi, hi, si) ==
    IF KpLen(kp) > keypoint_map.right_hip THEN FALSE
    ELSE IF KpLen(kp) <= wi THEN TRUE
    ELSE IF ~Confident(kp, wi) THEN FALSE
    ELSE IF KpLen(kp) <= hi THEN TRUE
    \* the rows of both hips are read once the three rows are confident
    ELSE Confident(kp, hi) /\ Confident(kp, si)

\* the IndexError of _detect_concealment
detect_concealment_faults(history) ==
    \E i \in Max2(1, Len(history) - behavior_rules.concealment.concealment_duration_threshold * FPS + 1)
               ..Len(history) :
        \/ HandFaults(history[i].keypoints, keypoint_map.left_wrist, keypoint_map.left_hip,
                      keypoint_map.left_shoulder)
        \/ HandFaults(history[i].keypoints, keypoint_map.right_wrist, keypoint_map.right_hip,
                      keypoint_map.right_shoulder)

\* the increments of one frame, both hands
FrameNear(l, r) == <<l[1] + r[1], l[2] + r[2], l[3] + r[3]>>

\* concealment_scores after the loop over recent: <<pocket, waistband, jacket>>
\* ('bag' is never incremented)
ConcealmentScores(near) ==
    << SumFn([i \in 1..Len(near) |-> near[i][1]], 1, Len(near)),
       SumFn([i \in 1..Len(near) |-> near[i][2]], 1, Len(near)),
       SumFn([i \in 1..Len(near) |-> near[i][3]], 1, Len(near)) >>

NoConcealment == [fired |-> FALSE, location |-> "none", score |-> 0]

\* the first location, in the order of the dict, whose score exceeds
\* min_frames_required
ConcealmentDecision(scores, min_frames_required) ==
    IF scores[1] > min_frames_required THEN [fired |-> TRUE, location |-> "pocket", score |-> scores[1]]
    ELSE IF scores[2] > min_frames_required
         THEN [fired |-> TRUE, location |-> "waistband", score |-> scores[2]]
    ELSE IF scores[3] > min_frames_required
         THEN [fired |-> TRUE, location |-> "jacket", score |-> scores[3]]
    ELSE NoConcealment

\* the try block of _detect_concealment on recent, when it does not raise
ConcealmentOn(recent) ==
    ConcealmentDecision(
        ConcealmentScores(Listed([i \in 1..Len(recent) |->
            FrameNear(HandNear(recent[i].keypoints, keypoint_map.left_wrist,
                               keypoint_map.left_hip, keypoint_map.left_shoulder),
                      HandNear(recent[i].keypoints, keypoint_map.right_wrist,
                               keypoint_map.right_hip, keypoint_map.right_shoulder))])),
        \* int(concealment_duration_threshold * 30 * 0.6)
        (behavior_rules.concealment.concealment_duration_threshold * FPS * 6) \div 10)

\* _detect_concealment: fired iff a result dict is returned
detect_concealment(history) ==
    IF detect_concealment_faults(history) THEN NoConcealment
    ELSE ConcealmentOn(LastN(history, behavior_rules.concealment.concealment_duration_threshold * FPS))

\* avg_speed > speed_threshold, d2 being the doubled distances between
\* consecutive centres and k the number of positive ones
RunningTest(d2, k) ==
    /\ k > 0
    \* avg_speed = mean(distance * 30)
    /\ SumFn(d2, 1, Len(d2)) * FPS > 2 * behavior_rules.running.speed_threshold * k

RunningOn(d2) == RunningTest(d2, Cardinality({i \in 1..Len(d2) : d2[i] > 0}))

\* the doubled distances between the consecutive centres of recent
CentreSteps(recent) ==
    Listed([i \in 1..(Len(recent) - 1) |-> CentreDist2(recent[i], recent[i + 1])])

\* _detect_running: TRUE iff a result dict is returned
detect_running(history) ==
    IF Len(history) < behavior_rules.running.min_duration * FPS THEN FALSE
    ELSE RunningOn(CentreSteps(LastN(history, behavior_rules.running.min_duration * FPS)))

\* angle between two displacement vectors above 60 degrees
TurnOver60(a, b) ==
    \/ a[1] * b[1] + a[2] * b[2] <= 0
    \* cos(angle) < 1/2:  4 * dot * dot < |a|^2 * |b|^2
    \/ ProdLess(2 * (a[1] * b[1] + a[2] * b[2]), 2 * (a[1] * b[1] + a[2] * b[2]),
                a[1] * a[1] + a[2] * a[2], b[1] * b[1] + b[2] * b[2])

\* the doubled displacements of the centre between the consecutive frames
CentreMoves(recent) ==
    Listed([i \in 1..(Len(recent) - 1) |->
              << (recent[i + 1].bbox[1] + recent[i + 1].bbox[3]) - (recent[i].bbox[1] + recent[i].bbox[3]),
                 (recent[i + 1].bbox[2] + recent[i + 1].bbox[4]) - (recent[i].bbox[2] + recent[i].bbox[4]) >>])

\* a rule that asks for both the direction changes and the speed variance
ErraticTestBoth(sig, speeds2) ==
    IF Len(sig) < 10 THEN FALSE
    ELSE /\ Cardinality({i \in 2..Len(sig) : TurnOver60(sig[i - 1], sig[i])}) * 10 * FPS
              > behavior_rules.erratic_movement.direction_change_threshold * Len(sig)
         /\ VarTimesK2(speeds2, Len(sig))
              > 4 * behavior_rules.erratic_movement.speed_variance_threshold * Len(sig) * Len(sig)

\* the return expression of _detect_erratic_movement on the significant
\* movements sig (those with speed > 5) and their doubled speeds
ErraticTest(sig, speeds2) ==
    IF Len(sig) < 10 THEN FALSE
    ELSE \* direction_changes / len(directions) * (10 * 30) > direction_change_threshold
         \/ Cardinality({i \in 2..Len(sig) : TurnOver60(sig[i - 1], sig[i])}) * 10 * FPS
              > behavior_rules.erratic_movement.direction_change_threshold * Len(sig)
         \* np.var(speeds) > speed_variance_threshold
         \/ VarTimesK2(speeds2, Len(sig))
              > 4 * behavior_rules.erratic_movement.speed_variance_threshold * Len(sig) * Len(sig)

ErraticOn(sig) == ErraticTest(sig, Listed([i \in 1..Len(sig) |-> Norm(sig[i][1], sig[i][2])]))

\* _detect_erratic_movement
detect_erratic_movement(history) ==
    IF Len(history) < behavior_rules.erratic_movement.min_duration * FPS THEN FALSE
    ELSE ErraticOn(SelectSeq(CentreMoves(LastN(history, behavior_rules.erratic_movement.min_duration * FPS)),
                             LAMBDA v : v[1] * v[1] + v[2] * v[2] > 100))

\* std / mean of the k values m[1..k], in hundredths (rounded down): the root
\* of var_k2 / sum^2, var_k2 being k * k * np.var(m) and sum the sum of m
SpreadRatio(var_k2, sum) ==
    IF sum = 0 THEN 0
    ELSE ISqrt(100 * (100 * (var_k2 \div (sum * sum))
                      + (var_k2 % (sum * sum)) \div Max2((sum * sum) \div 100, 1)))

\* angle between two displacement vectors above 45 degrees (np.pi / 4)
TurnOver45(a, b) ==
    \/ a[1] * b[1] + a[2] * b[2] <= 0
    \/ Abs(a[1] * b[2] - a[2] * b[1]) > a[1] * b[1] + a[2] * b[2]

\* 'confidence' of _detect_running, in hundredths, on the moves with speed > 0
\* (mv, doubled) and their lengths (speeds2):
\* min(0.95, 0.6 + speed_consistency * 0.2 + direction_consistency * 0.15) with
\* speed_consistency = 1 - std / avg and
\* direction_consistency = 1 - direction_changes / len(directions)
RunningConfidence(mv, speeds2) ==
    Min2(95, 95 - (20 * SpreadRatio(VarTimesK2(speeds2, Len(speeds2)), SumFn(speeds2, 1, Len(speeds2)))) \div 100
                - (15 * Cardinality({i \in 2..Len(mv) : TurnOver45(mv[i - 1], mv[i])}))
                    \div Max2(Len(mv), 1))

RunningConfidenceOn(mv) ==
    RunningConfidence(mv, Listed([i \in 1..Len(mv) |-> Norm(mv[i][1], mv[i][2])]))

\* running_result['confidence'] when _detect_running returns a result
running_confidence(history) ==
    RunningConfidenceOn(SelectSeq(CentreMoves(LastN(history, behavior_rules.running.min_duration * FPS)),
                                  LAMBDA v : v[1] # 0 \/ v[2] # 0))

\* fall_result['confidence']: min(0.95, 0.6 + fall_indicators * 0.15)
FallConfidence(fall) == Min2(95, 60 + 15 * fall.indicators)

\* concealment['confidence']: min(score / len(recent), 1.0)
ConcealmentConfidence(concealment, n) == Min2((100 * concealment.score) \div n, 100)

RuleNames == {"loitering", "fighting", "fall", "concealment", "running", "erratic_movement"}

\* what a rule did: "fault" (it raised, was caught inside the rule and
\* reported nothing), "fire" or "none"
Outcome(faults, fired) == IF faults THEN "fault" ELSE IF fired THEN "fire" ELSE "none"

\* what each rule of _detect_person_behaviors does on history
RuleOutcomes(history) ==
    [loitering |-> Outcome(FALSE, is_loitering(history)),
     fighting |-> Outcome(is_fighting_faults(history), is_fighting(history)),
     fall |-> Outcome(detect_fall_faults(history), detect_fall(history).fired),
     concealment |-> Outcome(detect_concealment_faults(history), detect_concealment(history).fired),
     running |-> Outcome(FALSE, detect_running(history)),
     erratic_movement |-> Outcome(FALSE, detect_erratic_movement(history))]

\* the behaviours appended for the rules that fired, in the order of the source
EventsOf(person_id, history, out) ==
    (IF out.loitering = "fire"
     THEN << [type |-> "loitering", person_id |-> person_id, threat_level |-> "medium",
              confidence |-> 85, duration |-> Len(history)] >> ELSE << >>)
    \o (IF out.fighting = "fire"
     THEN << [type |-> "fighting", person_id |-> person_id, threat_level |-> "high",
              confidence |-> 90] >> ELSE << >>)
    \o (IF out.fall = "fire"
     THEN << [type |-> "fall", person_id |-> person_id, threat_level |-> "high",
              confidence |-> FallConfidence(detect_fall(history)), severity |-> detect_fall(history).severity] >> ELSE << >>)
    \o (IF out.concealment = "fire"
     THEN << [type |-> "concealment", person_id |-> person_id, threat_level |-> "medium",
              confidence |-> ConcealmentConfidence(
                  detect_concealment(history),
                  Min2(Len(history), behavior_rules.concealment.concealment_duration_threshold * FPS)),
              concealment_type |-> detect_concealment(history).location] >> ELSE << >>)
    \o (IF out.running = "fire"
     THEN << [type |-> "running", person_id |-> person_id, threat_level |-> "medium",
              confidence |-> running_confidence(history)] >> ELSE << >>)
    \o (IF out.erratic_movement = "fire"
     THEN << [type |-> "erratic_movement", person_id |-> person_id, threat_level |-> "medium",
               confidence |-> 75] >>
     ELSE << >>)

\* a _detect_person_behaviors that a fault of one rule sends to the outer
\* except branch, which returns []
detect_person_behaviors_abort(person_id, history, out) ==
    IF Len(history) < MinEval \/ \E r \in RuleNames : out[r] = "fault" THEN << >>
    ELSE EventsOf(person_id, history, out)

\* _detect_person_behaviors, out being what each rule does on history: the
\* rules catch their own exceptions
detect_person_behaviors(person_id, history, out) ==
    IF Len(history) < MinEval THEN << >>
    ELSE EventsOf(person_id, history, out)

-----------------------------------------------------------------------------
(* Group rules, on the pose_data of one batch *)

\* frames[idx] of _detect_group_behaviors: the poses of frame idx, in order
FrameSlice(pose_sequence, idx) == SelectSeq(pose_sequence, LAMBDA p : p.frame_idx = idx)

\* frames.keys()
FrameKeys(pose_sequence) == {pose_sequence[i].frame_idx : i \in 1..Len(pose_sequence)}

\* a crowd test that also accepts a ratio equal to the threshold
CrowdTestAtLeast(people, pairs) ==
    100 * Cardinality({pr \in pairs : CentreDist2(people[pr[1]], people[pr[2]])
                                        < 2 * behavior_rules.crowd_formation.proximity_threshold})
      >= behavior_rules.crowd_formation.density_threshold * Max2(Cardinality(pairs), 1)

\* proximity_ratio > density_threshold for the people of one frame
CrowdTest(people, pairs) ==
    100 * Cardinality({pr \in pairs : CentreDist2(people[pr[1]], people[pr[2]])
                                        < 2 * behavior_rules.crowd_formation.proximity_threshold})
      > behavior_rules.crowd_formation.density_threshold * Max2(Cardinality(pairs), 1)

CrowdOn(people) ==
    /\ ~(Len(people) < behavior_rules.crowd_formation.min_people_count)
    /\ CrowdTest(people, {pr \in (1..Len(people)) \X (1..Len(people)) : pr[1] < pr[2]})

\* 'confidence' of the crowd event, in hundredths: min(0.9, proximity_ratio)
CrowdConfidence(people, pairs) ==
    Min2(90, (100 * Cardinality({pr \in pairs : CentreDist2(people[pr[1]], people[pr[2]])
                                                  < 2 * behavior_rules.crowd_formation.proximity_threshold}))
               \div Max2(Cardinality(pairs), 1))

CrowdConfidenceOn(people) ==
    CrowdConfidence(people, {pr \in (1..Len(people)) \X (1..Len(people)) : pr[1] < pr[2]})

\* max(frames.keys())
LatestFrame(keys) == CHOOSE k \in keys : \A j \in keys : k >= j

\* _detect_crowd_formation: TRUE iff an event is returned
detect_crowd_formation(pose_sequence) ==
    /\ pose_sequence # << >>
    /\ CrowdOn(FrameSlice(pose_sequence, LatestFrame(FrameKeys(pose_sequence))))

\* the doubled distances from p to the people of prev that are closer than 200 px
NearOnes(prev, p) == {CentreDist2(prev[j], p) : j \in 1..Len(prev)} \cap 0..399

\* the people of curr matched in prev, with the doubled distance to the match
Matches(prev, curr) ==
    SelectSeq([i \in 1..Len(curr) |-> NearOnes(prev, curr[i])], LAMBDA S : S # {})

\* np.mean(frame_movements), doubled and rounded down; -1 when nobody is matched
MeanMovement(m) ==
    IF m = << >> THEN -1
    ELSE SumFn([i \in 1..Len(m) |-> CHOOSE d \in m[i] : \A e \in m[i] : d <= e], 1, Len(m)) \div Len(m)

\* avg_movement of one pair of consecutive frames, -1 when none is recorded
FrameMovement(prev, curr) ==
    IF Len(prev) >= 3 /\ Len(curr) >= 3 THEN MeanMovement(Matches(prev, curr)) ELSE -1

\* sorted(frames.keys())
SortedKeys(keys) ==
    [i \in 1..Cardinality(keys) |-> CHOOSE k \in keys : Cardinality({j \in keys : j < k}) = i - 1]

\* avg_mass_movement > 150 and movement_consistency > 0.6 on the recorded
\* movements mv[1..k] (doubled)
MassTest(mv, k) ==
    /\ ~(k < 10)
    /\ SumFn(mv, 1, k) > 300 * k
    \* 1 - std / avg > 0.6
    /\ 25 * VarTimesK2(mv, k) < 4 * SumFn(mv, 1, k) * SumFn(mv, 1, k)

MassOn(mv) == MassTest(mv, Len(mv))

\* the movements recorded along recent_frames
Movements(pose_sequence, recent) ==
    SelectSeq([i \in 1..(Len(recent) - 1) |->
                 FrameMovement(FrameSlice(pose_sequence, recent[i]),
                               FrameSlice(pose_sequence, recent[i + 1]))],
              LAMBDA m : m >= 0)

\* 'confidence' of the mass movement event, in hundredths:
\* min(0.9, movement_consistency)
MassConfidence(mv) == Min2(90, 100 - SpreadRatio(VarTimesK2(mv, Len(mv)), SumFn(mv, 1, Len(mv))))

\* _detect_mass_movement: TRUE iff an event is returned
detect_mass_movement(pose_sequence) ==
    /\ ~(Cardinality(FrameKeys(pose_sequence)) < 30)
    /\ MassOn(Movements(pose_sequence, LastN(SortedKeys(FrameKeys(pose_sequence)), 30)))

\* _detect_distancing_violations: distancing_enabled is False
detect_distancing_violations(pose_sequence) == << >>

\* behavior.get('person_id') of a group behaviour
NoPerson == "None"

\* _detect_group_behaviors
detect_group_behaviors(pose_sequence) ==
    IF Len(pose_sequence) < 2 THEN << >>
    ELSE (IF detect_crowd_formation(pose_sequence)
          THEN << [type |-> "crowd_formation", person_id |-> NoPerson, threat_level |-> "medium",
                 confidence |-> CrowdConfidenceOn(
                     FrameSlice(pose_sequence, LatestFrame(FrameKeys(pose_sequence))))] >>
          ELSE << >>)
         \o (IF detect_mass_movement(pose_sequence)
          THEN << [type |-> "mass_movement", person_id |-> NoPerson, threat_level |-> "high",
                 confidence |-> MassConfidence(
                     Movements(pose_sequence, LastN(SortedKeys(FrameKeys(pose_sequence)), 30)))] >>
          ELSE << >>)
         \o detect_distancing_violations(pose_sequence)

-----------------------------------------------------------------------------
(* Threat aggregation and the alert gate *)

\* an aggregation that takes the level of the last behaviour
calculate_overall_threat_level_last(behaviors) ==
    IF behaviors = << >> THEN "low" ELSE behaviors[Len(behaviors)].threat_level

\* _calculate_overall_threat_level
calculate_overall_threat_level(behaviors) ==
    IF behaviors = << >> THEN "low"
    ELSE IF \E i \in 1..Len(behaviors) : behaviors[i].threat_level = "critical" THEN "critical"
    ELSE IF \E i \in 1..Len(behaviors) : behaviors[i].threat_level = "high" THEN "high"
    ELSE IF \E i \in 1..Len(behaviors) : behaviors[i].threat_level = "medium" THEN "medium"
    ELSE "low"

\* f"{behavior['type']}_{behavior.get('person_id', 'group')}_{camera_id}"
AlertKey(behavior, camera_id) ==
    <<behavior.type, IF behavior.person_id = NoPerson THEN "group" ELSE behavior.person_id, camera_id>>

\* a gate without cooldown
InCooldownNever(cooldown, key, current_time) == FALSE

\* the cooldown test of _generate_behavior_alert
InCooldown(cooldown, key, current_time) ==
    /\ key \in DOMAIN cooldown
    /\ current_time - cooldown[key] < cooldown_duration

\* requires_response of an alert
RequiresResponse(level) == level \in {"high", "critical"}

\* the alert dict built by _generate_behavior_alert
AlertOf(behavior, camera_id, store_id, current_time) ==
    [id |-> <<"alert", current_time, camera_id>>,
     type |-> "behavior_alert",
     behavior_type |-> behavior.type,
     threat_level |-> behavior.threat_level,
     camera_id |-> camera_id,
     store_id |-> store_id,
     person_id |-> behavior.person_id,
     timestamp |-> current_time,
     requires_response |-> RequiresResponse(behavior.threat_level)]

\* an alert loop that asks for an alert for every behaviour
QualifiesAll(behavior) == TRUE

\* does the loop of analyze_behavior ask for an alert for this behaviour
Qualifies(behavior) == behavior.threat_level \in {"high", "critical"}

\* a gate that keeps only the newest entry of the cooldown store
AlertEmitFresh(g, key, alert, current_time) ==
    [cooldown |-> (key :> current_time),
     alerts |-> Append(g.alerts, alert),
     log |-> Put(g.log, key, Append(Get(g.log, key, << >>), current_time))]

\* _generate_behavior_alert passing the gate: g = [cooldown, alerts, log] is
\* what the loop has built so far
AlertEmit(g, key, alert, current_time) ==
    [cooldown |-> Put(g.cooldown, key, current_time),
     alerts |-> Append(g.alerts, alert),
     log |-> Put(g.log, key, Append(Get(g.log, key, << >>), current_time))]

\* a loop in which a suppressed behaviour restarts the cooldown of its key
AlertStepRestarting(g, b, camera_id, store_id, current_time) ==
    IF ~Qualifies(b) THEN g
    ELSE IF InCooldown(g.cooldown, AlertKey(b, camera_id), current_time)
         THEN [g EXCEPT !.cooldown = Put(g.cooldown, AlertKey(b, camera_id), current_time)]
    ELSE AlertEmit(g, AlertKey(b, camera_id), AlertOf(b, camera_id, store_id, current_time),
                   current_time)

\* one turn of the alert loop of analyze_behavior on behaviour b
AlertStep(g, b, camera_id, store_id, current_time) ==
    IF ~Qualifies(b) THEN g
    ELSE IF InCooldown(g.cooldown, AlertKey(b, camera_id), current_time) THEN g
    ELSE AlertEmit(g, AlertKey(b, camera_id), AlertOf(b, camera_id, store_id, current_time),
                   current_time)

RECURSIVE AlertLoop(_, _, _, _, _, _, _)
AlertLoop(g, behaviors, lo, hi, camera_id, store_id, current_time) ==
    IF lo > hi THEN g
    ELSE IF lo = hi THEN AlertStep(g, behaviors[lo], camera_id, store_id, current_time)
    ELSE CHOOSE z \in {AlertLoop(r, behaviors, (lo + hi) \div 2 + 1, hi, camera_id, store_id, current_time) :
                         r \in {AlertLoop(g, behaviors, lo, (lo + hi) \div 2, camera_id, store_id,
                                          current_time)}} : TRUE

-----------------------------------------------------------------------------
(* analyze_behavior *)

\* lines 166-181: pose_data is appended to the person's deque, now history,
\* and to pose_sequence.  st = [bh, app, pose_sequence, behaviors, evals,
\* raised] is what the call has built so far.
Stored(st, person_id, pose_data, history) ==
    [bh |-> Put(st.bh, person_id, history),
     app |-> Put(st.app, person_id,
                 Append(IF person_id \in DOMAIN st.bh THEN st.app[person_id] ELSE << >>, pose_data)),
     pose_sequence |-> Append(st.pose_sequence, pose_data),
     behaviors |-> st.behaviors,
     evals |-> st.evals,
     raised |-> FALSE]

\* lines 185-186: the person's behaviours extend behaviors_detected
Evaluated(st, person_id, frame_idx, history, out) ==
    [st EXCEPT !.behaviors = @ \o detect_person_behaviors(person_id, history, out),
               !.evals = Append(@, [person_id |-> person_id, frame_idx |-> frame_idx, outcomes |-> out])]

\* lines 166-186
PersonAppend(st, person_id, pose_data, history) ==
    IF Len(history) > MinHistory
    THEN Evaluated(Stored(st, person_id, pose_data, history), person_id, pose_data.frame_idx,
                   history, RuleOutcomes(history))
    ELSE Stored(st, person_id, pose_data, history)

PersonPose(st, person_id, pose_data) ==
    PersonAppend(st, person_id, pose_data,
                 DequeAppend(Get(st.bh, person_id, << >>), pose_data, BehaviorMaxLen))

\* the body of the loop over the detected persons (lines 163-186): kp is the
\* array of person person_idx in frame i
PersonStep(st, camera_id, i, person_idx, kp) ==
    PersonPose(st, PersonId(camera_id, person_idx), PoseData(i, PersonId(camera_id, person_idx), kp))

RECURSIVE PersonLoop(_, _, _, _, _, _)
PersonLoop(st, camera_id, i, persons, lo, hi) ==
    IF lo > hi THEN st
    ELSE IF lo = hi THEN PersonStep(st, camera_id, i, lo - 1, persons[lo])
    ELSE CHOOSE z \in {PersonLoop(r, camera_id, i, persons, (lo + hi) \div 2 + 1, hi) :
                         r \in {PersonLoop(st, camera_id, i, persons, lo, (lo + hi) \div 2)}} : TRUE

\* the body of the loop over the frames (lines 156-186); once the pose model
\* has raised, the rest of the loop is not executed
FrameStep(st, camera_id, i, frame) ==
    IF st.raised THEN st
    ELSE IF frame.raises THEN [st EXCEPT !.raised = TRUE]
    ELSE PersonLoop(st, camera_id, i, frame.persons, 1, Len(frame.persons))

RECURSIVE FrameLoop(_, _, _, _, _)
FrameLoop(st, camera_id, frames, lo, hi) ==
    IF lo > hi THEN st
    ELSE IF lo = hi THEN FrameStep(st, camera_id, lo - 1, frames[lo])
    ELSE CHOOSE z \in {FrameLoop(r, camera_id, frames, (lo + hi) \div 2 + 1, hi) :
                         r \in {FrameLoop(st, camera_id, frames, lo, (lo + hi) \div 2)}} : TRUE

\* the results dict of a successful call (without pose_tracking and the
\* timestamps), g being what the alert loop has built
Success(st, camera_id, n, behaviors, g) ==
    [bh |-> st.bh, app |-> st.app, cooldown |-> g.cooldown, log |-> g.log, evals |-> st.evals,
     result |-> [status |-> "success", camera_id |-> camera_id,
                 behaviors_detected |-> behaviors,
                 threat_level |-> calculate_overall_threat_level(behaviors),
                 alerts |-> g.alerts,
                 analysis_summary |->
                    [frames_processed |-> n,
                     people_tracked |-> Cardinality({st.pose_sequence[k].person_id :
                                                       k \in 1..Len(st.pose_sequence)}),
                     behaviors_found |-> Len(behaviors)]]]

\* lines 196-201: the alert loop over behaviors_detected
Alerted(st, camera_id, store_id, n, behaviors, cooldown, log, current_time) ==
    Success(st, camera_id, n, behaviors,
            AlertLoop([cooldown |-> cooldown, alerts |-> << >>, log |-> log],
                      behaviors, 1, Len(behaviors), camera_id, store_id, current_time))

\* lines 188-223, st being what the loop over the frames has left
Concluded(st, camera_id, store_id, n, cooldown, log, current_time) ==
    IF st.raised
    THEN \* the except branch: what the loop did before the exception stays
         [bh |-> st.bh, app |-> st.app, cooldown |-> cooldown, log |-> log, evals |-> st.evals,
          result |-> [status |-> "error"]]
    ELSE Alerted(st, camera_id, store_id, n,
                 st.behaviors \o detect_group_behaviors(st.pose_sequence),
                 cooldown, log, current_time)

\* an analyze_behavior that analyses batches of any length
analyze_behavior_any_length(frames, camera_id, store_id, bh, app, cooldown, log, current_time) ==
    Concluded(FrameLoop([bh |-> bh, app |-> app, pose_sequence |-> << >>, behaviors |-> << >>,
                         evals |-> << >>, raised |-> FALSE],
                        camera_id, frames, 1, Len(frames)),
              camera_id, store_id, Len(frames), cooldown, log, current_time)

\* analyze_behavior(frames, camera_id, store_id) in a service whose state is
\* (bh, cooldown) at wall-clock time current_time; app and log are the
\* history variables.  Yields the new state and the returned dict.
analyze_behavior(frames, camera_id, store_id, bh, app, cooldown, log, current_time) ==
    IF Len(frames) < MinFrames
    THEN [bh |-> bh, app |-> app, cooldown |-> cooldown, log |-> log, evals |-> << >>,
          result |-> [status |-> "insufficient_frames", camera_id |-> camera_id,
                      behaviors_detected |-> << >>, threat_level |-> "low", alerts |-> << >>]]
    ELSE Concluded(FrameLoop([bh |-> bh, app |-> app, pose_sequence |-> << >>, behaviors |-> << >>,
                              evals |-> << >>, raised |-> FALSE],
                             camera_id, frames, 1, Len(frames)),
                   camera_id, store_id, Len(frames), cooldown, log, current_time)

-----------------------------------------------------------------------------
(* clear_person_history and the gait buffer *)

\* a clear that empties the whole dict
clear_person_history_all(bh, person_id) == IF person_id \in DOMAIN bh THEN << >> ELSE bh

\* clear_person_history(person_id)
clear_person_history(bh, person_id) == IF person_id \in DOMAIN bh THEN Del(bh, person_id) ELSE bh

\* get_behavior_statistics(), the two counts
get_behavior_statistics(bh, cooldown) ==
    [people_tracked |-> Cardinality(DOMAIN bh), active_alerts |-> Cardinality(DOMAIN cooldown)]

\* the frame_data dict of add_frame_to_buffer, buffer being the person's deque
FrameData(buffer, person_keypoints, timestamp) ==
    [timestamp |-> timestamp, keypoints |-> person_keypoints, frame_index |-> Len(buffer)]

\* add_frame_to_buffer(person_id, frame, timestamp) on the buffers gb:
\* the new buffers and the returned flag
add_frame_to_buffer(gb, person_id, frame, timestamp) ==
    IF frame.raises THEN [gb |-> gb, ret |-> FALSE]
    ELSE IF Len(frame.persons) = 0 THEN [gb |-> gb, ret |-> FALSE]
    ELSE [gb |-> Put(gb, person_id,
                     DequeAppend(Get(gb, person_id, << >>),
                                 FrameData(Get(gb, person_id, << >>), frame.persons[1], timestamp),
                                 max_frames)),
          ret |-> TRUE]

\* clear_buffer(person_id)
clear_buffer(gb, person_id) == IF person_id \in DOMAIN gb THEN Del(gb, person_id) ELSE gb

\* get_buffer_status()
get_buffer_status(gb) ==
    [p \in DOMAIN gb |-> [frames |-> Len(gb[p]), ready_for_analysis |-> Len(gb[p]) >= min_frames]]

-----------------------------------------------------------------------------
(* The frames the clients submit *)

\* An upright person, every row confident except the wrists.
StandRows ==
    << <<50, 10, 90>>, <<55, 5, 90>>, <<45, 5, 90>>, <<60, 10, 90>>, <<40, 10, 90>>,
       <<70, 40, 90>>, <<30, 40, 90>>, <<80, 80, 90>>, <<20, 80, 90>>,
       <<110, 120, 30>>, <<-10, 120, 30>>, <<65, 120, 90>>, <<35, 120, 90>>,
       <<65, 170, 90>>, <<35, 170, 90>>, <<65, 220, 90>>, <<35, 220, 90>> >>

\* the array rows moved by (dx, dy)
Shift(rows, dx, dy) == Listed([i \in 1..Len(rows) |-> <<rows[i][1] + dx, rows[i][2] + dy, rows[i][3]>>])

\* the array of a person of the given shape at (dx, dy): upright, lying on
\* the side (x and y exchanged), and two malformed arrays: "short" has only
\* the five head rows, "overconf" a nose of confidence 1.5
Pose(shape, dx, dy) ==
    CASE shape = "stand" -> Shift(StandRows, dx, dy)
      [] shape = "lying" -> Shift(Listed([i \in 1..Len(StandRows) |->
                                  <<StandRows[i][2], StandRows[i][1], StandRows[i][3]>>]), dx, dy)
      [] shape = "short" -> Shift(SubSeq(StandRows, 1, 5), dx, dy)
      [] shape = "overconf" -> Shift([StandRows EXCEPT ![1] = <<50, 10, 150>>], dx, dy)

\* the contract of a keypoints array: 17 rows, confidences in [0, 1]
WellFormed(kp) ==
    /\ KpLen(kp) = NumSlots
    /\ \A i \in 1..Len(kp) : kp[i][3] >= 0 /\ kp[i][3] <= 100

\* where person person_idx is in frame i of an n-frame batch, and in which shape
PoseAt(script, i, n, person_idx) ==
    CASE script = "stand" -> <<"stand", 300 * person_idx, 0>>
      \* sinks 6 px per frame and lies in the last frame
      [] script = "fall" -> IF i < n - 1 THEN <<"stand", 300 * person_idx, 6 * i>>
                            ELSE <<"lying", 300 * person_idx, 6 * i + 70>>
      \* lies on the floor
      [] script = "lie" -> <<"lying", 300 * person_idx, 400>>
      \* stands close to the floor position of person 0
      [] script = "near" -> <<"stand", 10 * person_idx, 300>>
      \* stands 95 px to the right of the last of the persons standing close
      [] script = "edge" -> <<"stand", 10 * (person_idx - 1) + 95, 300>>
      \* the whole group moves 160 px per frame, down and then back up
      \* runs 12 px per frame to the right
      [] script = "dash" -> <<"stand", 300 * person_idx + 12 * i, 0>>
      \* runs to the right, a step down and a step up in turn
      [] script = "weave" -> <<"stand", 300 * person_idx + 12 * i, 12 * (i % 2)>>
      \* runs 12 px per frame, one step of 100 px at frame 40
      [] script = "lurch" -> <<"stand", 300 * person_idx + 12 * i + (IF i >= 40 THEN 88 ELSE 0), 0>>
      \* creeps 1 px per frame; at frame 40 the detection is 800 px further on
      [] script = "jolt" -> <<"stand", 300 * person_idx + i + (IF i >= 40 THEN 800 ELSE 0), 0>>
      [] script = "rush" -> <<"stand", 300 * person_idx, 160 * (IF i <= 15 THEN i ELSE 30 - i)>>

NoDefect == [kind |-> "none", at |-> 0, who |-> 0]

\* the array the pose model returns for person j of frame i of the batch sc
Detected(sc, i, j, p) ==
    Pose(IF sc.bad.kind \in {"short", "overconf"} /\ sc.bad.at = i /\ sc.bad.who = j
         THEN sc.bad.kind ELSE p[1],
         p[2], p[3])

\* frame i (0-based) of the batch sc, as the pose model sees it
FrameAt(sc, i) ==
    [raises |-> sc.bad.kind = "raise" /\ sc.bad.at = i,
     persons |-> [j \in 1..Len(sc.scripts) |-> Detected(sc, i, j - 1, PoseAt(sc.scripts[j], i, sc.n, j - 1))]]

FramesOf(sc) == [i \in 1..sc.n |-> FrameAt(sc, i - 1)]

Batch(name, camera_id, n, scripts, bad) ==
    [name |-> name, camera_id |-> camera_id, n |-> n, scripts |-> scripts, bad |-> bad]

ScTwo == Batch("two", "cam1", 2, <<"stand">>, NoDefect)
ScFall == Batch("fall", "cam1", 31, <<"fall", "stand">>, NoDefect)
ScLie == Batch("lie", "cam1", 3, <<"lie", "stand">>, NoDefect)
ScLieOther == Batch("lie_other", "cam1", 3, <<"stand", "lie">>, NoDefect)
ScCrowd == Batch("crowd", "cam1", 3, <<"lie", "near", "near", "near", "near">>, NoDefect)
ScRush == Batch("rush", "cam1", 30, <<"rush", "rush", "rush">>, NoDefect)
ScRushCam2 == Batch("rush", "cam2", 30, <<"rush", "rush", "rush">>, NoDefect)
ScShort == Batch("short", "cam1", 3, <<"stand">>, [kind |-> "short", at |-> 1, who |-> 0])
ScOverconf == Batch("overconf", "cam1", 3, <<"stand">>, [kind |-> "overconf", at |-> 1, who |-> 0])
ScRaise == Batch("raise", "cam1", 3, <<"stand", "stand">>, [kind |-> "raise", at |-> 2, who |-> 0])
ScFallBad == Batch("fall_bad", "cam1", 31, <<"fall", "fall">>, [kind |-> "short", at |-> 5, who |-> 0])
ScDash == Batch("dash", "cam2", 60, <<"dash">>, NoDefect)
ScWeave == Batch("weave", "cam3", 60, <<"weave">>, NoDefect)
ScLurch == Batch("lurch", "cam4", 60, <<"lurch">>, NoDefect)
ScJolt == Batch("jolt", "cam5", 60, <<"jolt">>, NoDefect)
ScStill == Batch("still", "cam1", 130, <<"stand">>, NoDefect)
ScLong == Batch("long", "cam1", 160, <<"stand">>, NoDefect)

\* what the gait caller may pass: a frame with one upright person, one with
\* a malformed array, one without a detection
GaitGood == [raises |-> FALSE, persons |-> << Pose("stand", 0, 0) >>]
GaitShort == [raises |-> FALSE, persons |-> << Pose("short", 0, 0) >>]
GaitEmpty == [raises |-> FALSE, persons |-> << >>]

-----------------------------------------------------------------------------
(* Bounds of the exploration *)

MaxBatches == 2     \* analyze_behavior calls per run
MaxClears == 1      \* clear calls per run
MaxTime == 120      \* the wall clock stops here
MaxGaitCalls == 92  \* frames of the long gait track
MaxShortTrack == 3  \* frames of the short gait track

\* the wall clock advances by a minute between calls
TickSteps == {60}

-----------------------------------------------------------------------------
(* State machine *)

\* StreamProcessor.__init__: no stream, no buffer, no thread
NoStreams ==
    [active_streams |-> << >>, frame_buffers |-> << >>, processing_threads |-> << >>,
     configs |-> << >>, threads |-> << >>]

\* the state after the construction of the service object the run drives
\* (probes: the helper-method calls a run may start from; batches: how many
\* analyze_behavior calls the run may make)
InitBudget(services, probes, batches) ==
    /\ behavior_history = << >>
    /\ alert_cooldown = << >>
    /\ now = 0
    /\ result = [status |-> "none"]
    /\ gait_buffer = << >>
    /\ gait_ret = FALSE
    /\ lastOp = [op |-> "init"]
    /\ appended = << >>
    /\ gait_appended = << >>
    /\ alert_log = << >>
    /\ evals = << >>
    /\ service \in services
    /\ budget = [batches |-> batches, clears |-> MaxClears]
    /\ calls = << >>
    /\ stats = [people_tracked |-> 0, active_alerts |-> 0]
    /\ probe \in probes
    /\ streams = NoStreams

InitState(services, probes) == InitBudget(services, probes, MaxBatches)

InitOf(services) == InitState(services, {[method |-> "none"]})

Init == InitOf({"behavior"})

GaitUnchanged == UNCHANGED <<gait_buffer, gait_ret, gait_appended>>
BehaviorUnchanged == UNCHANGED <<behavior_history, alert_cooldown, result, appended, alert_log, evals>>
RestUnchanged == UNCHANGED <<calls, stats, probe, streams>>

\* a client calls analyze_behavior with the batch sc
AnalyzeBehavior(sc) ==
    /\ service = "behavior"
    /\ budget.batches > 0
    /\ \E r \in {analyze_behavior(FramesOf(sc), sc.camera_id, "store1", behavior_history,
                                  appended, alert_cooldown, alert_log, now)} :
          /\ behavior_history' = r.bh
          /\ appended' = r.app
          /\ alert_cooldown' = r.cooldown
          /\ alert_log' = r.log
          /\ evals' = r.evals
          /\ result' = r.result
    /\ lastOp' = [op |-> "analyze_behavior", batch |-> sc.name, camera_id |-> sc.camera_id]
    /\ budget' = [budget EXCEPT !.batches = @ - 1]
    /\ UNCHANGED <<now, service>>
    /\ GaitUnchanged
    /\ RestUnchanged

\* a client calls clear_person_history(person_id)
ClearPersonHistory(person_id) ==
    /\ service = "behavior"
    /\ budget.clears > 0
    /\ behavior_history' = clear_person_history(behavior_history, person_id)
    /\ appended' = IF person_id \in DOMAIN appended THEN Del(appended, person_id) ELSE appended
    /\ lastOp' = [op |-> "clear_person_history", person_id |-> person_id]
    /\ budget' = [budget EXCEPT !.clears = @ - 1]
    /\ UNCHANGED <<alert_cooldown, now, result, alert_log, evals, service>>
    /\ GaitUnchanged
    /\ RestUnchanged

\* a client calls get_behavior_statistics()
GetBehaviorStatistics ==
    /\ service = "behavior"
    /\ stats' = get_behavior_statistics(behavior_history, alert_cooldown)
    /\ lastOp' = [op |-> "get_behavior_statistics"]
    /\ UNCHANGED <<now, service, budget, calls, probe, streams>>
    /\ BehaviorUnchanged
    /\ GaitUnchanged

\* wall-clock time passes between two calls
Tick(d) ==
    /\ service = "behavior"
    /\ now + d <= MaxTime
    /\ now' = now + d
    /\ lastOp' = [op |-> "tick"]
    /\ UNCHANGED <<service, budget>>
    /\ BehaviorUnchanged
    /\ GaitUnchanged
    /\ RestUnchanged

\* a caller passes one frame of a track to add_frame_to_buffer
AddFrameToBuffer(person_id, frame, timestamp) ==
    /\ service = "gait"
    /\ \E r \in {add_frame_to_buffer(gait_buffer, person_id, frame, timestamp)} :
          /\ gait_buffer' = r.gb
          /\ gait_ret' = r.ret
          /\ gait_appended' =
                IF r.ret
                THEN Put(gait_appended, person_id,
                         Append(Get(gait_appended, person_id, << >>),
                                FrameData(Get(gait_buffer, person_id, << >>), frame.persons[1], timestamp)))
                ELSE gait_appended
    /\ lastOp' = [op |-> "add_frame_to_buffer", person_id |-> person_id]
    /\ UNCHANGED <<now, service, budget>>
    /\ BehaviorUnchanged
    /\ RestUnchanged

\* a caller calls clear_buffer(person_id)
ClearBuffer(person_id) ==
    /\ service = "gait"
    /\ budget.clears > 0
    /\ gait_buffer' = clear_buffer(gait_buffer, person_id)
    /\ gait_appended' = IF person_id \in DOMAIN gait_appended THEN Del(gait_appended, person_id)
                        ELSE gait_appended
    /\ lastOp' = [op |-> "clear_buffer", person_id |-> person_id]
    /\ budget' = [budget EXCEPT !.clears = @ - 1]
    /\ UNCHANGED <<gait_ret, now, service>>
    /\ BehaviorUnchanged
    /\ RestUnchanged

-----------------------------------------------------------------------------
(* Specifications *)

\* how many frames the caller has passed to add_frame_to_buffer for a track
\* since its last clear
TrackLen(person_id) == Len(Get(gait_appended, person_id, << >>))

\* The behaviour service under batches that raise alerts, the wall clock
\* advancing between the calls.
AlertBatches == {ScFall, ScLie, ScLieOther, ScCrowd, ScRush, ScRushCam2}

Next ==
    \/ \E sc \in AlertBatches : AnalyzeBehavior(sc)
    \/ \E d \in TickSteps : Tick(d)

Spec == Init /\ [][Next]_vars

\* Either service under tracks longer than its buffers: the behaviour service
\* gets long batches of one standing person, the gait service the frames of
\* the track "g1" one by one, stamped 1, 2, ...
RingBatches == {ScStill, ScLong}

NextRing ==
    \/ \E sc \in RingBatches : AnalyzeBehavior(sc)
    \/ /\ TrackLen("g1") < MaxGaitCalls
       /\ AddFrameToBuffer("g1", GaitGood, TrackLen("g1") + 1)
    \/ ClearBuffer("g1")

SpecRing == InitOf({"behavior", "gait"}) /\ [][NextRing]_vars

\* Either service under any calls of a client: short batches (one too short
\* to be analysed, some with a malformed array or a frame the pose model
\* raises on), clears of present and absent ids, statistics, and gait frames
\* with and without a usable detection, stamped in order or with an old
\* timestamp.
CallBatches == {ScTwo, ScShort, ScOverconf, ScRaise, ScFallBad}
ClearIds == {PersonId("cam1", 0), PersonId("cam2", 0)}
GaitPersons == {"g1", "g2"}
GaitIds == {"g1", "g2", "g3"}
GaitFrames(person_id) == IF person_id = "g1" THEN {GaitGood} ELSE {GaitGood, GaitShort, GaitEmpty}
GaitStamps(person_id) ==
    IF person_id = "g1" THEN {TrackLen(person_id) + 1} ELSE {TrackLen(person_id) + 1, 0}

NextCalls ==
    \/ \E sc \in CallBatches : AnalyzeBehavior(sc)
    \/ \E person_id \in ClearIds : ClearPersonHistory(person_id)
    \/ GetBehaviorStatistics
    \/ \E person_id \in GaitPersons :
          /\ TrackLen(person_id) < MaxShortTrack
          /\ \E frame \in GaitFrames(person_id), timestamp \in GaitStamps(person_id) :
                AddFrameToBuffer(person_id, frame, timestamp)
    \/ \E person_id \in GaitIds : ClearBuffer(person_id)

SpecCalls == InitOf({"behavior", "gait"}) /\ [][NextCalls]_vars

-----------------------------------------------------------------------------
(* Properties *)

\* the cooldown key of an alert of a result
KeyOfAlert(alert) ==
    <<alert.behavior_type, IF alert.person_id = NoPerson THEN "group" ELSE alert.person_id,
      alert.camera_id>>

\* the alerts of a result that carry the key
AlertsWithKey(alerts, key) == {k \in 1..Len(alerts) : KeyOfAlert(alerts[k]) = key}

\* was an alert emitted for key less than two minutes before time t
AlertedLately(log, key, t) == key \in DOMAIN log /\ t - log[key][Len(log[key])] < 120

\* C1: in every successful analyze_behavior call, for every event of level
\* high or critical, the result carries no alert for the event's key
\* (type, subject, camera) when the last alert emitted for that key before
\* the call is less than 120 s old, and exactly one otherwise.
C1_AlertGate ==
    [][(lastOp'.op = "analyze_behavior" /\ result'.status = "success") =>
          \A i \in 1..Len(result'.behaviors_detected) :
             result'.behaviors_detected[i].threat_level \in {"high", "critical"} =>
                Cardinality(AlertsWithKey(result'.alerts,
                                          AlertKey(result'.behaviors_detected[i], lastOp'.camera_id)))
                   = IF AlertedLately(alert_log,
                                      AlertKey(result'.behaviors_detected[i], lastOp'.camera_id), now)
                     THEN 0 ELSE 1]_vars

\* C1, its case: a batch brought a high event for a key whose last alert was
\* emitted by an earlier call less than 120 s ago, and no alert for the key
C1_Suppressed ==
    /\ lastOp.op = "analyze_behavior"
    /\ result.status = "success"
    /\ \E i \in 1..Len(result.behaviors_detected) :
          /\ result.behaviors_detected[i].threat_level \in {"high", "critical"}
          /\ AlertKey(result.behaviors_detected[i], lastOp.camera_id) \in DOMAIN alert_log
          /\ alert_log[AlertKey(result.behaviors_detected[i], lastOp.camera_id)] = <<now - 60>>
          /\ AlertsWithKey(result.alerts,
                           AlertKey(result.behaviors_detected[i], lastOp.camera_id)) = {}

\* the place of a threat level in the order low < medium < high < critical
LevelRank(level) ==
    CASE level = "low" -> 0 [] level = "medium" -> 1 [] level = "high" -> 2 [] level = "critical" -> 3

\* C2: the threat level of a result is the highest level among its
\* behaviors_detected, and "low" when there are none.
C2_ThreatLevelIsMax ==
    result.status \in {"success", "insufficient_frames"} =>
       IF result.behaviors_detected = << >> THEN result.threat_level = "low"
       ELSE /\ \E i \in 1..Len(result.behaviors_detected) :
                  result.behaviors_detected[i].threat_level = result.threat_level
            /\ \A i \in 1..Len(result.behaviors_detected) :
                  LevelRank(result.behaviors_detected[i].threat_level) <= LevelRank(result.threat_level)

\* C2, its case: a result whose events are of different levels, the last one
\* not the highest
C2_MixedLevels ==
    /\ result.status = "success"
    /\ result.behaviors_detected # << >>
    /\ result.behaviors_detected[Len(result.behaviors_detected)].threat_level = "medium"
    /\ \E i \in 1..Len(result.behaviors_detected) : result.behaviors_detected[i].threat_level = "high"
    /\ result.threat_level = "high"

\* C3: clear_person_history(A) and clear_buffer(A) remove A's buffer and
\* nothing else: every other buffer of either service keeps its content, the
\* cooldown store is unchanged, and nothing changes when A has no buffer.
C3_ClearIsolation ==
    [][/\ lastOp'.op = "clear_person_history" =>
             /\ DOMAIN behavior_history' = DOMAIN behavior_history \ {lastOp'.person_id}
             /\ \A p \in DOMAIN behavior_history' : behavior_history'[p] = behavior_history[p]
             /\ lastOp'.person_id \notin DOMAIN behavior_history => behavior_history' = behavior_history
             /\ alert_cooldown' = alert_cooldown
             /\ gait_buffer' = gait_buffer
       /\ lastOp'.op = "clear_buffer" =>
             /\ DOMAIN gait_buffer' = DOMAIN gait_buffer \ {lastOp'.person_id}
             /\ \A p \in DOMAIN gait_buffer' : gait_buffer'[p] = gait_buffer[p]
             /\ lastOp'.person_id \notin DOMAIN gait_buffer => gait_buffer' = gait_buffer
             /\ alert_cooldown' = alert_cooldown
             /\ behavior_history' = behavior_history]_vars

\* C3, its case: person 0 of camera 1 has just been cleared while person 1
\* keeps a buffer and the cooldown store holds an entry
C3_ClearedOneOfTwo ==
    /\ lastOp.op = "clear_person_history"
    /\ lastOp.person_id = PersonId("cam1", 0)
    /\ PersonId("cam1", 0) \notin DOMAIN behavior_history
    /\ PersonId("cam1", 1) \in DOMAIN behavior_history
    /\ Len(behavior_history[PersonId("cam1", 1)]) > 0
    /\ DOMAIN alert_cooldown # {}
    /\ result.status = "success"

\* C4: a buffer holds the last min(n, capacity) of the n frames appended to
\* it since its creation or last clear, in the order of the appends; the
\* capacity is 300 in the behaviour service and 90 in the gait service.
C4_RingBuffer ==
    /\ DOMAIN behavior_history = DOMAIN appended
    /\ \A p \in DOMAIN behavior_history :
          /\ Len(behavior_history[p]) <= 300
          /\ behavior_history[p] = LastN(appended[p], 300)
    /\ DOMAIN gait_buffer = DOMAIN gait_appended
    /\ \A p \in DOMAIN gait_buffer :
          /\ Len(gait_buffer[p]) <= 90
          /\ gait_buffer[p] = LastN(gait_appended[p], 90)

\* C4, its case: more than 300 frames were appended to a behaviour buffer,
\* which is full
C4_Overflowed ==
    \E p \in DOMAIN behavior_history :
       Len(appended[p]) > 300 /\ Len(behavior_history[p]) = 300

\* C5: in every buffer of either service the timestamps increase from the
\* oldest frame to the newest.
C5_TimestampsIncrease ==
    /\ \A p \in DOMAIN behavior_history :
          \A i \in 1..(Len(behavior_history[p]) - 1) :
             behavior_history[p][i].timestamp < behavior_history[p][i + 1].timestamp
    /\ \A p \in DOMAIN gait_buffer :
          \A i \in 1..(Len(gait_buffer[p]) - 1) :
             gait_buffer[p][i].timestamp < gait_buffer[p][i + 1].timestamp

\* C6: when the 130 frames of the batch "still" (one person standing at one
\* place) are all the service has seen of the person, the result holds
\* exactly one loitering event for the person, of level medium and of
\* duration 130 frames (4.33 s).
C6_LoiteringAfter130 ==
    (/\ lastOp.op = "analyze_behavior"
     /\ lastOp.batch = "still"
     /\ Len(appended[PersonId("cam1", 0)]) = 130) =>
       /\ result.status = "success"
       /\ Cardinality({i \in 1..Len(result.behaviors_detected) :
                          /\ result.behaviors_detected[i].type = "loitering"
                          /\ result.behaviors_detected[i].person_id = PersonId("cam1", 0)}) = 1
       /\ \A i \in 1..Len(result.behaviors_detected) :
             result.behaviors_detected[i].type = "loitering" =>
                /\ result.behaviors_detected[i].threat_level = "medium"
                /\ result.behaviors_detected[i].duration = 130

\* C7: no buffer of either service ever holds a frame whose keypoint array
\* has not 17 rows or has a confidence outside [0, 1].
C7_MalformedRejected ==
    /\ \A p \in DOMAIN behavior_history :
          \A i \in 1..Len(behavior_history[p]) : WellFormed(behavior_history[p][i].keypoints)
    /\ \A p \in DOMAIN gait_buffer :
          \A i \in 1..Len(gait_buffer[p]) : WellFormed(gait_buffer[p][i].keypoints)

\* C8: an analyze_behavior call that returns status "error" leaves every
\* buffer and the cooldown store as they were before the call.
C8_AtomicFailure ==
    [][(lastOp'.op = "analyze_behavior" /\ result'.status = "error") =>
          /\ behavior_history' = behavior_history
          /\ alert_cooldown' = alert_cooldown]_vars

\* C9: in a batch during which a rule faulted, every firing of a rule, for
\* the same person or another, is an event of the result: for each person
\* and rule the result holds as many events as the rule fired; and the call
\* returns an error only when the pose model raised.
C9_FaultIsolation ==
    (/\ lastOp.op = "analyze_behavior"
     /\ \E k \in 1..Len(evals) : \E r \in RuleNames : evals[k].outcomes[r] = "fault") =>
       /\ result.status = "success" \/ lastOp.batch = "raise"
       /\ result.status = "success" =>
             \A k \in 1..Len(evals) : \A r \in RuleNames :
                Cardinality({j \in 1..Len(evals) :
                                /\ evals[j].person_id = evals[k].person_id
                                /\ evals[j].outcomes[r] = "fire"})
                   = Cardinality({i \in 1..Len(result.behaviors_detected) :
                                     /\ result.behaviors_detected[i].person_id = evals[k].person_id
                                     /\ result.behaviors_detected[i].type = r})

\* C9, its case: in one batch a rule faulted for a person, another rule fired
\* for the same person and a rule fired for another person
C9_FaultAndFire ==
    /\ lastOp.op = "analyze_behavior"
    /\ result.status = "success"
    /\ \E k \in 1..Len(evals) :
          /\ evals[k].outcomes.concealment = "fault"
          /\ evals[k].outcomes.fall = "fire"
          /\ \E j \in 1..Len(evals) :
                /\ evals[j].person_id # evals[k].person_id
                /\ evals[j].outcomes.fall = "fire"

\* C10: every alert of a result stands for an event of the result of level
\* high or critical with the alert's type, subject and level, no two alerts
\* of a result share a key, and requires_response is true exactly for the
\* levels high and critical.
C10_AlertsFromEvents ==
    result.status = "success" =>
       \A k \in 1..Len(result.alerts) :
          /\ result.alerts[k].threat_level \in {"high", "critical"}
          /\ result.alerts[k].camera_id = result.camera_id
          /\ \E i \in 1..Len(result.behaviors_detected) :
                /\ result.behaviors_detected[i].type = result.alerts[k].behavior_type
                /\ result.behaviors_detected[i].person_id = result.alerts[k].person_id
                /\ result.behaviors_detected[i].threat_level = result.alerts[k].threat_level
          /\ \A j \in 1..Len(result.alerts) :
                KeyOfAlert(result.alerts[j]) = KeyOfAlert(result.alerts[k]) => j = k
          /\ result.alerts[k].requires_response
                <=> result.alerts[k].threat_level \in {"high", "critical"}

\* C10, its case: a result with an alert, with more high events than alerts
\* and with a medium event
C10_FewerAlertsThanEvents ==
    /\ result.status = "success"
    /\ Len(result.alerts) > 0
    /\ Cardinality({i \in 1..Len(result.behaviors_detected) :
                       result.behaviors_detected[i].threat_level = "high"}) > Len(result.alerts)
    /\ \E i \in 1..Len(result.behaviors_detected) :
          result.behaviors_detected[i].threat_level = "medium"

-----------------------------------------------------------------------------
(* Concurrent analyze_behavior calls *)

\* Two clients call analyze_behavior at the same time, one per camera.  A
\* call is cut where another thread may run in between: the membership test
\* and creation of the deque (lines 167-168), the append (line 180), the
\* evaluation of the rules (lines 184-186) and the rest of the call after the
\* loop (lines 188-215).

MaxConcFrames == 3  \* frames of a concurrent batch

ScConcA == Batch("conc_a", "cam1", MaxConcFrames, <<"stand", "stand">>, NoDefect)
ScConcB == Batch("conc_b", "cam2", MaxConcFrames, <<"lie">>, NoDefect)
ConcBatches == {ScConcA, ScConcB}

\* the locals of a call that enters the loop over the frames
CallStart(sc) ==
    [sc |-> sc, i |-> 0, person_idx |-> 0, pc |-> IF sc.n < MinFrames THEN "short" ELSE "ensure",
     pose_sequence |-> << >>, behaviors |-> << >>, evals |-> << >>, raised |-> FALSE]

\* the person the call c is at, and the pose_data it builds for the person
CallPerson(c) == PersonId(c.sc.camera_id, c.person_idx)
CallPose(c) == PoseData(c.i, CallPerson(c), FrameAt(c.sc, c.i).persons[c.person_idx + 1])

\* the loops of lines 156 and 163 move on
CallAdvance(c) ==
    IF c.person_idx + 1 < Len(c.sc.scripts) THEN [c EXCEPT !.person_idx = @ + 1, !.pc = "ensure"]
    ELSE IF c.i + 1 < c.sc.n THEN [c EXCEPT !.i = @ + 1, !.person_idx = 0, !.pc = "ensure"]
    ELSE [c EXCEPT !.pc = "conclude"]

\* the shared dicts with the locals of the call c, as the loop body sees them
CallView(c) ==
    [bh |-> behavior_history, app |-> appended, pose_sequence |-> c.pose_sequence,
     behaviors |-> c.behaviors, evals |-> c.evals, raised |-> FALSE]

\* a client calls analyze_behavior with the batch sc
StartCall(sc) ==
    /\ service = "behavior"
    /\ sc.camera_id \notin DOMAIN calls
    /\ calls' = Put(calls, sc.camera_id, CallStart(sc))
    /\ lastOp' = [op |-> "start", camera_id |-> sc.camera_id]
    /\ UNCHANGED <<now, service, budget, stats, probe, streams>>
    /\ BehaviorUnchanged
    /\ GaitUnchanged

\* lines 167-168
EnsureBuffer(camera_id) ==
    /\ camera_id \in DOMAIN calls
    /\ calls[camera_id].pc = "ensure"
    /\ behavior_history' = IF CallPerson(calls[camera_id]) \in DOMAIN behavior_history
                           THEN behavior_history
                           ELSE Put(behavior_history, CallPerson(calls[camera_id]), << >>)
    /\ appended' = IF CallPerson(calls[camera_id]) \in DOMAIN behavior_history
                   THEN appended
                   ELSE Put(appended, CallPerson(calls[camera_id]), << >>)
    /\ calls' = [calls EXCEPT ![camera_id].pc = "append"]
    /\ lastOp' = [op |-> "ensure", camera_id |-> camera_id]
    /\ UNCHANGED <<alert_cooldown, now, result, alert_log, evals, service, budget, stats, probe, streams>>
    /\ GaitUnchanged

\* lines 171-181
AppendPose(camera_id) ==
    /\ camera_id \in DOMAIN calls
    /\ calls[camera_id].pc = "append"
    /\ \E r \in {Stored(CallView(calls[camera_id]), CallPerson(calls[camera_id]),
                        CallPose(calls[camera_id]),
                        DequeAppend(behavior_history[CallPerson(calls[camera_id])],
                                    CallPose(calls[camera_id]), BehaviorMaxLen))} :
          /\ behavior_history' = r.bh
          /\ appended' = r.app
          /\ calls' = [calls EXCEPT ![camera_id].pose_sequence = r.pose_sequence,
                                    ![camera_id].pc = "evaluate"]
    /\ lastOp' = [op |-> "append", camera_id |-> camera_id]
    /\ UNCHANGED <<alert_cooldown, now, result, alert_log, evals, service, budget, stats, probe, streams>>
    /\ GaitUnchanged

\* lines 184-186, on the deque as it is now
EvaluatePerson(camera_id) ==
    /\ camera_id \in DOMAIN calls
    /\ calls[camera_id].pc = "evaluate"
    /\ calls' = [calls EXCEPT ![camera_id] =
                   CallAdvance(IF Len(behavior_history[CallPerson(@)]) > MinHistory
                               THEN Evaluated(@, CallPerson(@), @.i, behavior_history[CallPerson(@)],
                                              RuleOutcomes(behavior_history[CallPerson(@)]))
                               ELSE @)]
    /\ lastOp' = [op |-> "evaluate", camera_id |-> camera_id]
    /\ UNCHANGED <<now, service, budget, stats, probe, streams>>
    /\ BehaviorUnchanged
    /\ GaitUnchanged

\* lines 188-215, or the return of line 151
ConcludeCall(camera_id) ==
    /\ camera_id \in DOMAIN calls
    /\ calls[camera_id].pc \in {"conclude", "short"}
    /\ \E r \in {IF calls[camera_id].pc = "short"
                 THEN analyze_behavior(FramesOf(calls[camera_id].sc), camera_id, "store1",
                                       behavior_history, appended, alert_cooldown, alert_log, now)
                 ELSE Concluded(CallView(calls[camera_id]), camera_id, "store1",
                                calls[camera_id].sc.n, alert_cooldown, alert_log, now)} :
          /\ alert_cooldown' = r.cooldown
          /\ alert_log' = r.log
          /\ evals' = r.evals
          /\ result' = r.result
    /\ calls' = [calls EXCEPT ![camera_id].pc = "done"]
    /\ lastOp' = [op |-> "analyze_behavior", batch |-> calls[camera_id].sc.name,
                  camera_id |-> camera_id]
    /\ UNCHANGED <<behavior_history, appended, now, service, budget, stats, probe, streams>>
    /\ GaitUnchanged

Cameras == {"cam1", "cam2"}

NextConc ==
    \/ \E sc \in ConcBatches : StartCall(sc)
    \/ \E camera_id \in Cameras : EnsureBuffer(camera_id)
    \/ \E camera_id \in Cameras : AppendPose(camera_id)
    \/ \E camera_id \in Cameras : EvaluatePerson(camera_id)
    \/ \E camera_id \in Cameras : ConcludeCall(camera_id)

SpecConc == Init /\ [][NextConc]_vars

\* how many frames of person person_idx the call c has appended
AppendedBy(c, person_idx) ==
    IF c.pc \in {"conclude", "done"} THEN c.sc.n
    ELSE IF c.pc = "short" THEN 0
    ELSE c.i + (IF person_idx < c.person_idx \/ (person_idx = c.person_idx /\ c.pc = "evaluate")
                THEN 1 ELSE 0)

\* C11: while two analyze_behavior calls for different cameras run
\* concurrently, under every interleaving the buffer of each person of each
\* call holds exactly the frames the call has appended for the person so
\* far, in order, under the person's own id; no other buffer exists.
C11_BuffersPerEntity ==
    /\ \A camera_id \in DOMAIN calls :
          \A person_idx \in 0..(Len(calls[camera_id].sc.scripts) - 1) :
             AppendedBy(calls[camera_id], person_idx) > 0 =>
                /\ <<camera_id, person_idx>> \in DOMAIN behavior_history
                /\ Len(behavior_history[<<camera_id, person_idx>>])
                      = AppendedBy(calls[camera_id], person_idx)
                /\ \A k \in 1..AppendedBy(calls[camera_id], person_idx) :
                      /\ behavior_history[<<camera_id, person_idx>>][k].frame_idx = k - 1
                      /\ behavior_history[<<camera_id, person_idx>>][k].person_id
                            = <<camera_id, person_idx>>
                      /\ behavior_history[<<camera_id, person_idx>>][k].keypoints
                            = FrameAt(calls[camera_id].sc, k - 1).persons[person_idx + 1]
    /\ \A p \in DOMAIN behavior_history :
          /\ p[1] \in DOMAIN calls
          /\ p[2] < Len(calls[p[1]].sc.scripts)

\* C11, its case: both calls are in the middle of their loops, each with a
\* frame appended
C11_BothInFlight ==
    /\ DOMAIN calls = {"cam1", "cam2"}
    /\ \A camera_id \in DOMAIN calls :
          /\ calls[camera_id].pc \in {"ensure", "append", "evaluate"}
          /\ calls[camera_id].i >= 1
    /\ Len(behavior_history[<<"cam1", 1>>]) >= 1
    /\ Len(behavior_history[<<"cam2", 0>>]) >= 1

\* C12: no operation removes an entry of the cooldown store: its key set
\* only grows, it holds every key an alert was ever emitted for, and the
\* active_alerts count that get_behavior_statistics reports never decreases.
C12_CooldownNeverPruned ==
    /\ [](DOMAIN alert_log \subseteq DOMAIN alert_cooldown)
    /\ [][/\ DOMAIN alert_cooldown \subseteq DOMAIN alert_cooldown'
          /\ stats'.active_alerts >= stats.active_alerts
          /\ lastOp'.op = "get_behavior_statistics" =>
                stats'.active_alerts = Cardinality(DOMAIN alert_log)]_vars

\* C12, its case: statistics are taken after two alerts and a clear of the
\* history of a person an alert was emitted for
C12_StatsAfterClear ==
    /\ lastOp.op = "get_behavior_statistics"
    /\ stats.active_alerts = 2
    /\ stats.people_tracked = 1
    /\ budget.clears < MaxClears
    /\ \E key \in DOMAIN alert_cooldown : key[2] \notin DOMAIN behavior_history

-----------------------------------------------------------------------------
(* Crowds *)

MaxCluster == 5     \* persons standing close to each other in a crowd batch

\* m copies of a script
Copies(script, m) == [j \in 1..m |-> script]

\* a 3-frame batch with m persons standing 10 px apart, followed by others
\* that stand far away or at the edge of the group
ScGroup(m, tail) ==
    Batch(<<"group", m, tail>>, "cam1", 3, Copies("near", m) \o tail, NoDefect)

GroupTails == {<< >>, <<"edge">>, <<"stand">>, <<"stand", "stand">>}

CrowdBatches == {ScGroup(m, tail) : m \in 3..MaxCluster, tail \in GroupTails}

NextCrowd == \E sc \in CrowdBatches : AnalyzeBehavior(sc)

\* The behaviour service under batches of groups of people.
SpecCrowd == Init /\ [][NextCrowd]_vars

\* the doubled bbox centres of the persons in the last frame of a batch
LastCentres(sc) ==
    [j \in 1..Len(sc.scripts) |->
        get_center_point(keypoints_to_bbox(FrameAt(sc, sc.n - 1).persons[j]))]

\* the pairs of persons of the last frame whose centres are less than 100 px
\* apart
ClosePairs(c) ==
    {pr \in (1..Len(c)) \X (1..Len(c)) :
        /\ pr[1] < pr[2]
        /\ (c[pr[1]][1] - c[pr[2]][1]) * (c[pr[1]][1] - c[pr[2]][1])
             + (c[pr[1]][2] - c[pr[2]][2]) * (c[pr[1]][2] - c[pr[2]][2]) < 200 * 200}

\* C13: the result of a batch holds a crowd_formation event, one and of
\* level medium, iff the last frame of the batch has at least 5 persons and
\* more than 0.7 of their pairs are less than 100 px apart.
C13_CrowdFormation ==
    \A sc \in CrowdBatches :
       (lastOp.op = "analyze_behavior" /\ lastOp.batch = sc.name) =>
          /\ result.status = "success"
          /\ Cardinality({i \in 1..Len(result.behaviors_detected) :
                             result.behaviors_detected[i].type = "crowd_formation"})
                = IF /\ Len(sc.scripts) >= 5
                     /\ 20 * Cardinality(ClosePairs(LastCentres(sc)))
                           > 7 * Len(sc.scripts) * (Len(sc.scripts) - 1)
                  THEN 1 ELSE 0
          /\ \A i \in 1..Len(result.behaviors_detected) :
                result.behaviors_detected[i].type = "crowd_formation" =>
                   /\ result.behaviors_detected[i].threat_level = "medium"
                   /\ result.behaviors_detected[i].person_id = NoPerson

\* C13, its case: a crowd event for six persons of whom one stands at the
\* edge, close to one of the others only
C13_CrowdWithEdge ==
    /\ lastOp.op = "analyze_behavior"
    /\ lastOp.batch = <<"group", 5, <<"edge">> >>
    /\ \E i \in 1..Len(result.behaviors_detected) :
          result.behaviors_detected[i].type = "crowd_formation"


\* ---------------------------------------------------------------------------
\* Gait signatures and profile matching (gait_detection.py)
\* ---------------------------------------------------------------------------

\* the features a signature is built from, in the order of signature_features
signature_features ==
    <<"stride_length_avg", "walking_speed_avg", "step_frequency", "body_sway_total",
      "avg_knee_angle", "gait_asymmetry", "pose_stability", "step_regularity">>

SignatureLen == 8

\* features.get(name, 0)
FeatureGet(features, name) == IF name \in DOMAIN features THEN features[name] ELSE 0

Dot(u, v) == SumFn([i \in 1..Len(u) |-> u[i] * v[i]], 1, Len(u))

\* _generate_gait_signature: the eight features divided by their Euclidean
\* norm, in hundredths; the 1e-8 added to the norm only keeps the all-zero
\* vector from dividing by zero, and it stays all zero.  Features are
\* magnitudes, never negative.
SignatureOf(row, n2) ==
    [i \in 1..SignatureLen |->
        IF n2 = 0 THEN 0 ELSE ISqrt((10000 * row[i] * row[i]) \div n2)]

generate_gait_signature(features) ==
    CHOOSE s \in {SignatureOf(row, Dot(row, row)) :
                    row \in {[i \in 1..SignatureLen |->
                                 FeatureGet(features, signature_features[i])]}} : TRUE

\* sklearn's cosine_similarity of two row vectors, kept as the dot product and
\* the two squared norms: its value is dot / sqrt(qn * pn).  A vector of norm
\* zero is left as it is (its norm is taken as 1), so its similarity is 0.
NormSq(v) == IF Dot(v, v) = 0 THEN 1 ELSE Dot(v, v)

cosine_similarity(query_vector, profile_vector) ==
    [dot |-> Dot(query_vector, profile_vector),
     qn  |-> NormSq(query_vector),
     pn  |-> NormSq(profile_vector)]

\* best_similarity = 0
ZeroSimilarity == [dot |-> 0, qn |-> 1, pn |-> 1]

\* similarity > 0.7, that is dot > 0 and 100 * dot^2 > 49 * qn * pn
OverFloor(s) == s.dot > 0 /\ ProdLess(49 * s.qn, s.pn, 10 * s.dot, 10 * s.dot)

\* a > b for two similarities with non-negative dot products
SimGreater(a, b) == ProdLess(b.dot * b.dot, a.qn * a.pn, a.dot * a.dot, b.qn * b.pn)

\* similarity = 1.0: the two vectors point the same way
SimIsOne(s) == s.dot > 0 /\ s.dot * s.dot = s.qn * s.pn

\* Optional[Dict]: None, or the match
NoMatch == [matched |-> FALSE]

MatchOf(profile, similarity) ==
    [matched            |-> TRUE,
     person_id          |-> profile.person_id,
     name               |-> profile.name,
     confidence         |-> similarity,
     profile_confidence |-> profile.confidence]

\* the test of line 535 that replaces the best match so far
\* (variant: any profile above the floor replaces it)
BetterAboveFloor(similarity, best_similarity) == OverFloor(similarity)

Better(similarity, best_similarity) ==
    OverFloor(similarity) /\ SimGreater(similarity, best_similarity)

\* one pass of the loop over gait_profiles.items(), in storage order
MatchStep(best, profile, similarity) ==
    IF Better(similarity, best.similarity)
    THEN [match |-> MatchOf(profile, similarity), similarity |-> similarity]
    ELSE best

RECURSIVE MatchLoop(_, _, _, _)
MatchLoop(gait_profiles, query_vector, i, best) ==
    IF i > Len(gait_profiles) THEN best
    ELSE MatchLoop(gait_profiles, query_vector, i + 1,
                   MatchStep(best, gait_profiles[i],
                             cosine_similarity(query_vector, gait_profiles[i].embeddings)))

\* _match_gait_profile; gait_profiles is the dictionary as the sequence of its
\* items in insertion order
match_gait_profile(gait_profiles, features) ==
    IF gait_profiles = << >> THEN NoMatch
    ELSE MatchLoop(gait_profiles, generate_gait_signature(features), 1,
                   [match |-> NoMatch, similarity |-> ZeroSimilarity]).match

\* --- inputs ---------------------------------------------------------------

MaxProfiles == 2
MaxFeature == 2

\* feature sets as _extract_gait_features leaves them: a key that was never
\* set is absent
QueryFeatures ==
    {[stride_length_avg |-> a, walking_speed_avg |-> b, step_frequency |-> c] :
        a \in 0..MaxFeature, b \in 0..MaxFeature, c \in 0..1}

Profile(person_id, features) ==
    [person_id  |-> person_id,
     name       |-> person_id,
     embeddings |-> generate_gait_signature(features),
     confidence |-> 90]

\* known profiles: three walkers, and one enrolled from a track whose features
\* were all at their zero defaults
KnownProfiles ==
    {Profile("p_stride", [stride_length_avg |-> 1]),
     Profile("p_even",   [stride_length_avg |-> 1, walking_speed_avg |-> 1]),
     Profile("p_fast",   [stride_length_avg |-> 1, walking_speed_avg |-> 2]),
     Profile("p_blank",  [stride_length_avg |-> 0])}

\* the profile dictionaries: up to MaxProfiles distinct profiles in any order
RECURSIVE StoresOfLen(_)
StoresOfLen(n) ==
    IF n = 0 THEN {<< >>}
    ELSE {Append(s, p) : s \in StoresOfLen(n - 1), p \in KnownProfiles} 

ProfileStores ==
    {s \in UNION {StoresOfLen(n) : n \in 0..MaxProfiles} :
        \A i, j \in 1..Len(s) : i # j => s[i].person_id # s[j].person_id}

\* --- the helper methods as steps -------------------------------------------

ProbeUnchanged ==
    UNCHANGED <<behavior_history, alert_cooldown, gait_buffer, gait_ret, now, result, appended,
                gait_appended, alert_log, evals, lastOp, service, budget, calls, stats, streams>>

\* a call of _match_gait_profile that is about to run: the profile dictionary
\* of the service and the features of the analysed track
MatchCalls ==
    {[method |-> "call", gait_profiles |-> gait_profiles, features |-> features] :
        gait_profiles \in ProfileStores, features \in QueryFeatures}

MatchGaitProfile ==
    /\ probe.method = "call"
    /\ probe' = [method        |-> "_match_gait_profile",
                 gait_profiles |-> probe.gait_profiles,
                 features      |-> probe.features,
                 returned      |-> match_gait_profile(probe.gait_profiles, probe.features)]
    /\ ProbeUnchanged

InitMatch == InitState({"gait"}, MatchCalls)

NextMatch == MatchGaitProfile

SpecMatch == InitMatch /\ [][NextMatch]_vars

\* --- C14 ------------------------------------------------------------------

\* the profiles of a store whose similarity to the query is above the floor
SimTo(features, profile) ==
    cosine_similarity(generate_gait_signature(features), profile.embeddings)

AboveFloor(gait_profiles, features) ==
    {i \in 1..Len(gait_profiles) : OverFloor(SimTo(features, gait_profiles[i]))}

\* C14: _match_gait_profile returns no match exactly when no known profile has
\* a cosine similarity above 0.7 to the query; otherwise the profile it returns
\* is above the floor and no profile of the store, earlier or later in storage
\* order, has a higher similarity.
C14_BestMatch ==
    probe.method = "_match_gait_profile" =>
        /\ (~probe.returned.matched) <=> (AboveFloor(probe.gait_profiles, probe.features) = {})
        /\ probe.returned.matched =>
              \E i \in AboveFloor(probe.gait_profiles, probe.features) :
                 /\ probe.gait_profiles[i].person_id = probe.returned.person_id
                 /\ probe.returned.confidence = SimTo(probe.features, probe.gait_profiles[i])
                 /\ \A j \in AboveFloor(probe.gait_profiles, probe.features) :
                       ~SimGreater(SimTo(probe.features, probe.gait_profiles[j]),
                                   SimTo(probe.features, probe.gait_profiles[i]))

\* C14 witness: two profiles are above the floor, the better one is stored
\* first and the worse one last, and the first is returned.
C14_BestStoredFirst ==
    /\ probe.method = "_match_gait_profile"
    /\ Len(probe.gait_profiles) = 2
    /\ AboveFloor(probe.gait_profiles, probe.features) = {1, 2}
    /\ SimGreater(SimTo(probe.features, probe.gait_profiles[1]),
                  SimTo(probe.features, probe.gait_profiles[2]))
    /\ probe.returned.matched
    /\ probe.returned.person_id = probe.gait_profiles[1].person_id

\* --- C15 ------------------------------------------------------------------

\* the query's signature is the stored signature of the i-th profile
OwnSignature(gait_profiles, features, i) ==
    gait_profiles[i].embeddings = generate_gait_signature(features)

\* C15: when the signature of the query equals the stored signature of a known
\* profile, the cosine similarity of the two is 1.0 and _match_gait_profile
\* returns that profile as the best match.
C15_SelfMatch ==
    probe.method = "_match_gait_profile" =>
        \A i \in 1..Len(probe.gait_profiles) :
            OwnSignature(probe.gait_profiles, probe.features, i) =>
                /\ SimIsOne(SimTo(probe.features, probe.gait_profiles[i]))
                /\ probe.returned.matched
                /\ probe.returned.person_id = probe.gait_profiles[i].person_id

\* ---------------------------------------------------------------------------
\* The confidence of the events
\* ---------------------------------------------------------------------------

\* The behaviour service under batches that make the rules with a computed
\* confidence fire: falls, a group that gathers, a group that rushes, and
\* single tracks that run steadily, weaving, with one long step, or that
\* creep and are once detected far away.
ConfidenceBatches == {ScFall, ScCrowd, ScRush, ScDash, ScWeave, ScLurch, ScJolt}

NextConfidence ==
    \/ \E sc \in ConfidenceBatches : AnalyzeBehavior(sc)
    \/ \E d \in TickSteps : Tick(d)

SpecConfidence == Init /\ [][NextConfidence]_vars

\* C16: every event of the result of analyze_behavior, of whatever type, has
\* a confidence between 0 and 1 (0 and 100 hundredths).
C16_ConfidenceInRange ==
    result.status = "success" =>
        \A i \in 1..Len(result.behaviors_detected) :
            /\ result.behaviors_detected[i].confidence >= 0
            /\ result.behaviors_detected[i].confidence <= 100

\* ---------------------------------------------------------------------------
\* Gait feature extractors (gait_detection.py)
\* ---------------------------------------------------------------------------
\* An extractor gets keypoints, the array of the 17 x 3 arrays of a window of
\* frames (a sequence here), and returns a dict of features.  A feature value
\* is a number or NaN; numbers are integers, rounded down, in the unit named
\* with each feature.

Num(v) == [nan |-> FALSE, value |-> v]
NaN == [nan |-> TRUE, value |-> 0]

\* self.gait_joints
gait_joints == [left_hip |-> 11, right_hip |-> 12, left_knee |-> 13, right_knee |-> 14,
                left_ankle |-> 15, right_ankle |-> 16, left_shoulder |-> 5, right_shoulder |-> 6]

\* keypoints[:, joint, c] (c = 1 for x, 2 for y, 3 for the confidence)
JointCol(keypoints, joint, c) ==
    Listed([i \in 1..Len(keypoints) |-> KpAt(keypoints[i], joint)[c]])

\* a[i] + b[i]
Added(a, b) == Listed([i \in 1..Len(a) |-> a[i] + b[i]])

\* a[i] - b[i]
Diffs2(a, b) == Listed([i \in 1..Len(a) |-> a[i] - b[i]])

\* np.diff
Diffs(a) == Listed([i \in 1..(Len(a) - 1) |-> a[i + 1] - a[i]])

\* np.linalg.norm(..., axis=1) of the vectors <<dx[i], dy[i]>>
Norms(dx, dy) == Listed([i \in 1..Len(dx) |-> Norm(dx[i], dy[i])])

SeqMin(a) == SetMin({a[i] : i \in 1..Len(a)})
SeqMax(a) == SetMax({a[i] : i \in 1..Len(a)})

\* savgol_filter(x, 5, 2) (mode 'interp') of a sequence of more than 5 values,
\* times 35: the least-squares parabola through each run of five values,
\* taken at its middle, and at the four positions of the two ends
SavGol35(x, n) ==
    [i \in 1..n |->
        IF i = 1 THEN 31 * x[1] + 9 * x[2] - 3 * x[3] - 5 * x[4] + 3 * x[5]
        ELSE IF i = 2 THEN 9 * x[1] + 13 * x[2] + 12 * x[3] + 6 * x[4] - 5 * x[5]
        ELSE IF i = n - 1
             THEN -5 * x[n - 4] + 6 * x[n - 3] + 12 * x[n - 2] + 13 * x[n - 1] + 9 * x[n]
        ELSE IF i = n
             THEN 3 * x[n - 4] - 5 * x[n - 3] - 3 * x[n - 2] + 9 * x[n - 1] + 31 * x[n]
        ELSE -3 * x[i - 2] + 12 * x[i - 1] + 17 * x[i] + 12 * x[i + 1] - 3 * x[i + 2]] \o << >>

\* the values times 35, smoothed when there are more than 5 of them
Smoothed35(x) ==
    IF Len(x) > 5 THEN SavGol35(x, Len(x)) ELSE Listed([i \in 1..Len(x) |-> 35 * x[i]])

\* --- _analyze_stride_length ------------------------------------------------

\* the except branch: keypoints of an empty window has one axis only, and
\* keypoints[:, joint, :2] raises IndexError
StrideFault ==
    [stride_length_avg |-> Num(0), stride_length_var |-> Num(0), stride_length_range |-> Num(0)]

StrideShort == [stride_length_avg |-> Num(0), stride_length_var |-> Num(0)]

StrideMinValid == 10

\* the features of the smoothed ankle distances s (times 35), in px and px^2
StrideOf(s) ==
    [stride_length_avg   |-> Num(SumFn(s, 1, Len(s)) \div (35 * Len(s))),
     stride_length_var   |-> Num(VarTimesK2(s, Len(s)) \div (35 * 35 * Len(s) * Len(s))),
     stride_length_range |-> Num((SeqMax(s) - SeqMin(s)) \div 35)]

\* on the frames whose two ankles are above the confidence floor
StrideOn(valid) ==
    IF Len(valid) < StrideMinValid THEN StrideShort
    ELSE StrideOf(Smoothed35(
            Norms(Diffs2(JointCol(valid, gait_joints.left_ankle, 1),
                         JointCol(valid, gait_joints.right_ankle, 1)),
                  Diffs2(JointCol(valid, gait_joints.left_ankle, 2),
                         JointCol(valid, gait_joints.right_ankle, 2)))))

analyze_stride_length(keypoints) ==
    IF keypoints = << >> THEN StrideFault
    ELSE StrideOn(SelectSeq(keypoints,
                            LAMBDA kp : /\ Confident(kp, gait_joints.left_ankle)
                                        /\ Confident(kp, gait_joints.right_ankle)))

\* --- _analyze_walking_speed ------------------------------------------------

SpeedFault ==
    [walking_speed_avg |-> Num(0), walking_speed_var |-> Num(0),
     walking_speed_max |-> Num(0), walking_acceleration |-> Num(0)]

SpeedShort == [walking_speed_avg |-> Num(0), walking_speed_var |-> Num(0)]

\* distances / np.maximum(time_diffs, 0.001), doubled, in px/s: d2 are the
\* doubled distances of the hip centre, dt the time differences in frame
\* periods (1/30 s)
Speeds2(d2, dt) ==
    Listed([i \in 1..Len(d2) |-> IF dt[i] > 0 THEN (FPS * d2[i]) \div dt[i] ELSE 1000 * d2[i]])

\* np.percentile(speeds, 95) lies between the values of rank floor(0.95 * (m - 1))
\* and the next one (0-based), so speeds <= it are those not above the value of
\* that rank
RankValue(speeds, r) ==
    CHOOSE v \in {speeds[i] : i \in 1..Len(speeds)} :
        /\ Cardinality({i \in 1..Len(speeds) : speeds[i] < v}) <= r
        /\ Cardinality({i \in 1..Len(speeds) : speeds[i] <= v}) > r

ValidSpeeds(speeds) ==
    SelectSeq(speeds, LAMBDA s : s <= RankValue(speeds, (95 * (Len(speeds) - 1)) \div 100))

\* np.mean(np.abs(np.diff(valid_speeds))): the mean of no values is NaN
Acceleration(steps) ==
    IF steps = << >> THEN NaN
    ELSE Num(SumFn([i \in 1..Len(steps) |-> Abs(steps[i])], 1, Len(steps)) \div (2 * Len(steps)))

\* the features of the valid speeds (doubled), in px/s and (px/s)^2
SpeedOf(valid) ==
    [walking_speed_avg    |-> Num(SumFn(valid, 1, Len(valid)) \div (2 * Len(valid))),
     walking_speed_var    |-> Num(VarTimesK2(valid, Len(valid)) \div (4 * Len(valid) * Len(valid))),
     walking_speed_max    |-> Num(SeqMax(valid) \div 2),
     walking_acceleration |-> Acceleration(Diffs(valid))]

\* what the call may return on the speeds of the window.  np.percentile of no
\* speeds is NaN in one numpy and an IndexError in another: no speed is valid,
\* or the except branch is taken.
SpeedOn(speeds) ==
    IF speeds = << >> THEN {SpeedShort, SpeedFault}
    ELSE {SpeedOf(ValidSpeeds(speeds))}

\* the doubled hip centre (left_hip + right_hip), coordinate c, along the window
HipCentre2(keypoints, c) ==
    Added(JointCol(keypoints, gait_joints.left_hip, c), JointCol(keypoints, gait_joints.right_hip, c))

\* _analyze_walking_speed: the set of the dicts the call may return
analyze_walking_speed(keypoints, timestamps) ==
    IF keypoints = << >> THEN {SpeedFault}
    ELSE SpeedOn(Speeds2(Norms(Diffs(HipCentre2(keypoints, 1)), Diffs(HipCentre2(keypoints, 2))),
                         Diffs(timestamps)))

\* --- _analyze_step_frequency -----------------------------------------------

StepFault == [step_frequency |-> Num(0), step_regularity |-> Num(0), step_count |-> Num(0)]

StepShort == [step_frequency |-> Num(0), step_regularity |-> Num(0)]

StepMinCrossings == 3

\* np.where(np.diff(np.signbit(ankle_diff)))[0]: the 0-based positions after
\* which the sign of ankle_diff changes
ZeroCrossings(ankle_diff) ==
    SelectSeq([i \in 1..(Len(ankle_diff) - 1) |->
                  IF (ankle_diff[i] < 0) # (ankle_diff[i + 1] < 0) THEN i - 1 ELSE -1],
              LAMBDA z : z >= 0)

\* the features of the step intervals, in hundredths of steps per second and
\* hundredths: 30 / mean and 1 / (1 + var)
StepOf(step_intervals, step_count) ==
    [step_frequency  |-> Num((100 * FPS * Len(step_intervals))
                               \div SumFn(step_intervals, 1, Len(step_intervals))),
     step_regularity |-> Num((100 * Len(step_intervals) * Len(step_intervals))
                               \div (Len(step_intervals) * Len(step_intervals)
                                     + VarTimesK2(step_intervals, Len(step_intervals)))),
     step_count      |-> Num(step_count)]

StepOn(zero_crossings) ==
    IF Len(zero_crossings) < StepMinCrossings THEN StepShort
    ELSE StepOf(Diffs(zero_crossings), Len(zero_crossings))

analyze_step_frequency(keypoints) ==
    IF keypoints = << >> THEN StepFault
    ELSE StepOn(ZeroCrossings(Diffs2(JointCol(keypoints, gait_joints.left_ankle, 1),
                                     JointCol(keypoints, gait_joints.right_ankle, 1))))

\* --- _analyze_body_sway ----------------------------------------------------

SwayFault ==
    [body_sway_lateral |-> Num(0), body_sway_vertical |-> Num(0), body_sway_total |-> Num(0)]

\* np.std of the k values m, which are scale times the quantity
StdOf(m, k, scale) == ISqrt(VarTimesK2(m, k)) \div (scale * k)

\* the sway of the smoothed doubled shoulder centre (xs, ys: its coordinates
\* times 35), in px
SwayOf(xs, ys) ==
    [body_sway_lateral  |-> Num(StdOf(xs, Len(xs), 70)),
     body_sway_vertical |-> Num(StdOf(ys, Len(ys), 70)),
     body_sway_total    |-> Num(ISqrt(VarTimesK2(xs, Len(xs)) + VarTimesK2(ys, Len(ys)))
                                  \div (70 * Len(xs)))]

ShoulderCentre2(keypoints, c) ==
    Added(JointCol(keypoints, gait_joints.left_shoulder, c),
          JointCol(keypoints, gait_joints.right_shoulder, c))

analyze_body_sway(keypoints) ==
    IF keypoints = << >> THEN SwayFault
    ELSE SwayOf(Smoothed35(ShoulderCentre2(keypoints, 1)), Smoothed35(ShoulderCentre2(keypoints, 2)))

\* --- _calculate_angle, _analyze_limb_movement -------------------------------

\* cos(15 k degrees) in thousandths, k = 1..12
CosBy15 == <<966, 866, 707, 500, 259, 0, -259, -500, -707, -866, -966, -1000>>

\* np.degrees(np.arccos(np.clip(cos, -1, 1))) of the angle between v1 and v2,
\* rounded down to a multiple of 15 degrees; the vectors are not zero
AngleBetween(v1, v2) ==
    15 * Cardinality({k \in 1..Len(CosBy15) :
            (1000 * (v1[1] * v2[1] + v1[2] * v2[2]))
                \div Max2(ISqrt((v1[1] * v1[1] + v1[2] * v1[2]) * (v2[1] * v2[1] + v2[2] * v2[2])), 1)
              <= CosBy15[k]})

\* _calculate_angle(p1, p2, p3): the angle at p2; with a zero-length vector
\* the quotient is 0 / 0 and the result NaN
calculate_angle(p1, p2, p3) ==
    IF (p1[1] = p2[1] /\ p1[2] = p2[2]) \/ (p3[1] = p2[1] /\ p3[2] = p2[2]) THEN NaN
    ELSE Num(AngleBetween(<<p1[1] - p2[1], p1[2] - p2[2]>>, <<p3[1] - p2[1], p3[2] - p2[2]>>))

LimbFault ==
    [avg_knee_angle |-> Num(0), knee_angle_var |-> Num(0), knee_angle_range |-> Num(0),
     arm_swing_intensity |-> Num(0)]

\* the two knee angles of one frame
KneeAngles(kp) ==
    << calculate_angle(KpAt(kp, gait_joints.left_hip), KpAt(kp, gait_joints.left_knee),
                       KpAt(kp, gait_joints.left_ankle)),
       calculate_angle(KpAt(kp, gait_joints.right_hip), KpAt(kp, gait_joints.right_knee),
                       KpAt(kp, gait_joints.right_ankle)) >>

\* knee_angles, doubled: left_angle + right_angle of the frames where neither
\* is NaN
KneeSums(angles) ==
    SelectSeq([i \in 1..Len(angles) |->
                  IF angles[i][1].nan \/ angles[i][2].nan THEN -1
                  ELSE angles[i][1].value + angles[i][2].value],
              LAMBDA a : a >= 0)

\* np.std(np.diff(shoulder, axis=0)): the deviation of the x and y
\* steps of one shoulder taken together
StepSpread(xs, ys) == StdOf(Diffs(xs) \o Diffs(ys), 2 * (Len(xs) - 1), 1)

\* features['arm_swing_intensity'], in px
ArmSwing(keypoints) ==
    IF Len(keypoints) > 1
    THEN Num((StepSpread(JointCol(keypoints, gait_joints.left_shoulder, 1),
                         JointCol(keypoints, gait_joints.left_shoulder, 2))
              + StepSpread(JointCol(keypoints, gait_joints.right_shoulder, 1),
                           JointCol(keypoints, gait_joints.right_shoulder, 2))) \div 2)
    ELSE Num(0)

\* the features of the knee angles (doubled), in degrees
LimbOf(knee2, arm_swing) ==
    IF knee2 # << >>
    THEN [avg_knee_angle      |-> Num(SumFn(knee2, 1, Len(knee2)) \div (2 * Len(knee2))),
          knee_angle_var      |-> Num(VarTimesK2(knee2, Len(knee2)) \div (4 * Len(knee2) * Len(knee2))),
          knee_angle_range    |-> Num((SeqMax(knee2) - SeqMin(knee2)) \div 2),
          arm_swing_intensity |-> arm_swing]
    ELSE [avg_knee_angle |-> Num(0), knee_angle_var |-> Num(0), knee_angle_range |-> Num(0),
          arm_swing_intensity |-> arm_swing]

analyze_limb_movement(keypoints) ==
    IF keypoints = << >> THEN LimbFault
    ELSE LimbOf(KneeSums(Listed([i \in 1..Len(keypoints) |-> KneeAngles(keypoints[i])])),
                ArmSwing(keypoints))

\* --- _analyze_gait_symmetry ------------------------------------------------

SymmetryFault == [gait_asymmetry |-> Num(0), left_leg_activity |-> Num(0), right_leg_activity |-> Num(0)]

SymmetryShort == [gait_asymmetry |-> Num(0)]

SymmetryMinFrames == 2

\* the features of the two ankles' step lengths, in hundredths of px
SymmetryOf(left_movement, right_movement) ==
    [gait_asymmetry     |-> Num(Abs((100 * SumFn(left_movement, 1, Len(left_movement)))
                                      \div Len(left_movement)
                                    - (100 * SumFn(right_movement, 1, Len(right_movement)))
                                      \div Len(right_movement))),
     left_leg_activity  |-> Num((100 * SumFn(left_movement, 1, Len(left_movement)))
                                  \div Len(left_movement)),
     right_leg_activity |-> Num((100 * SumFn(right_movement, 1, Len(right_movement)))
                                  \div Len(right_movement))]

\* the lengths of the steps of one joint between consecutive frames
JointSteps(keypoints, joint) ==
    Norms(Diffs(JointCol(keypoints, joint, 1)), Diffs(JointCol(keypoints, joint, 2)))

analyze_gait_symmetry(keypoints) ==
    IF keypoints = << >> THEN SymmetryFault
    ELSE IF Len(keypoints) < SymmetryMinFrames THEN SymmetryShort
    ELSE SymmetryOf(JointSteps(keypoints, gait_joints.left_ankle),
                    JointSteps(keypoints, gait_joints.right_ankle))

\* --- _analyze_pose_stability -----------------------------------------------

StabilityFault == [pose_stability |-> Num(0), body_alignment |-> Num(0), posture_consistency |-> Num(0)]

\* left_hip + right_hip + left_shoulder + right_shoulder: four times body_center
BodyCentre4(keypoints, c) == Added(HipCentre2(keypoints, c), ShoulderCentre2(keypoints, c))

\* 1 / (1 + np.std(norms)), in hundredths, norms4 being four times the lengths
\* of the steps of body_center; the deviation of no values is NaN
StabilityScore(norms4) ==
    IF norms4 = << >> THEN NaN
    ELSE Num((100 * 4 * Len(norms4)) \div (4 * Len(norms4) + ISqrt(VarTimesK2(norms4, Len(norms4)))))

\* right - left of a pair of joints in one frame
Across(kp, left, right) ==
    <<KpAt(kp, right)[1] - KpAt(kp, left)[1], KpAt(kp, right)[2] - KpAt(kp, left)[2]>>

\* alignment_angles: the angle between the shoulder line and the hip line of
\* the frames where neither has length zero
AlignmentAngles(keypoints) ==
    SelectSeq([i \in 1..Len(keypoints) |->
                  IF \/ Across(keypoints[i], gait_joints.left_shoulder, gait_joints.right_shoulder)
                          = <<0, 0>>
                     \/ Across(keypoints[i], gait_joints.left_hip, gait_joints.right_hip) = <<0, 0>>
                  THEN -1
                  ELSE AngleBetween(
                          Across(keypoints[i], gait_joints.left_shoulder, gait_joints.right_shoulder),
                          Across(keypoints[i], gait_joints.left_hip, gait_joints.right_hip))],
              LAMBDA a : a >= 0)

\* the features, in hundredths, degrees and hundredths
StabilityOf(stability_score, alignment_angles) ==
    [pose_stability      |-> stability_score,
     body_alignment      |-> IF alignment_angles = << >> THEN Num(0)
                             ELSE Num(SumFn(alignment_angles, 1, Len(alignment_angles))
                                        \div Len(alignment_angles)),
     posture_consistency |-> IF alignment_angles = << >> THEN Num(0)
                             ELSE Num((100 * Len(alignment_angles) * Len(alignment_angles))
                                        \div (Len(alignment_angles) * Len(alignment_angles)
                                              + VarTimesK2(alignment_angles, Len(alignment_angles))))]

analyze_pose_stability(keypoints) ==
    IF keypoints = << >> THEN StabilityFault
    ELSE StabilityOf(StabilityScore(Norms(Diffs(BodyCentre4(keypoints, 1)),
                                          Diffs(BodyCentre4(keypoints, 2)))),
                     AlignmentAngles(keypoints))

\* --- windows ---------------------------------------------------------------

MaxWindow == 12

\* the legs of a walker in frame i: the ankles swing 20 px ahead of and behind
\* their place under the hips, two frames each way
Swing(i) == IF i % 4 < 2 THEN 20 ELSE -20

\* the array of frame i of a track: the person stands ("still") or walks 6 px
\* per frame to the right ("walk"); every keypoint has the confidence conf
GaitPose(script, conf, i) ==
    Listed([s \in 1..NumSlots |->
        <<StandRows[s][1]
            + (IF script = "walk"
               THEN 6 * i + (IF s = gait_joints.left_ankle + 1 THEN Swing(i)
                             ELSE IF s = gait_joints.right_ankle + 1 THEN -Swing(i) ELSE 0)
               ELSE 0),
          StandRows[s][2],
          conf>>])

\* a window of n frames, one frame period apart
GaitWindow(script, conf, n) ==
    [keypoints  |-> Listed([i \in 1..n |-> GaitPose(script, conf, i)]),
     timestamps |-> Listed([i \in 1..n |-> i])]

\* confidences: well above the floor, just above it, at it, below it
WindowConfidences == {90, 51, 50, 30}

\* the calls of an extractor that are about to run
ExtractCalls ==
    {[method |-> "extract", window |-> GaitWindow(script, conf, n), script |-> script, conf |-> conf] :
        script \in {"walk", "still"}, conf \in WindowConfidences, n \in 0..MaxWindow}

\* the call returns
Extracted(method, returned) ==
    /\ probe' = [method |-> method, window |-> probe.window, script |-> probe.script,
                 conf |-> probe.conf, returned |-> returned]
    /\ ProbeUnchanged

AnalyzeStrideLength ==
    /\ probe.method = "extract"
    /\ Extracted("_analyze_stride_length", analyze_stride_length(probe.window.keypoints))

AnalyzeWalkingSpeed ==
    /\ probe.method = "extract"
    /\ \E returned \in analyze_walking_speed(probe.window.keypoints, probe.window.timestamps) :
          Extracted("_analyze_walking_speed", returned)

AnalyzeStepFrequency ==
    /\ probe.method = "extract"
    /\ Extracted("_analyze_step_frequency", analyze_step_frequency(probe.window.keypoints))

AnalyzeBodySway ==
    /\ probe.method = "extract"
    /\ Extracted("_analyze_body_sway", analyze_body_sway(probe.window.keypoints))

AnalyzeLimbMovement ==
    /\ probe.method = "extract"
    /\ Extracted("_analyze_limb_movement", analyze_limb_movement(probe.window.keypoints))

AnalyzeGaitSymmetry ==
    /\ probe.method = "extract"
    /\ Extracted("_analyze_gait_symmetry", analyze_gait_symmetry(probe.window.keypoints))

AnalyzePoseStability ==
    /\ probe.method = "extract"
    /\ Extracted("_analyze_pose_stability", analyze_pose_stability(probe.window.keypoints))

InitExtract == InitState({"gait"}, ExtractCalls)

NextExtract ==
    \/ AnalyzeStrideLength
    \/ AnalyzeWalkingSpeed
    \/ AnalyzeStepFrequency
    \/ AnalyzeBodySway
    \/ AnalyzeLimbMovement
    \/ AnalyzeGaitSymmetry
    \/ AnalyzePoseStability

SpecExtract == InitExtract /\ [][NextExtract]_vars

\* --- C17 ------------------------------------------------------------------

ExtractorMethods ==
    {"_analyze_stride_length", "_analyze_walking_speed", "_analyze_step_frequency",
     "_analyze_body_sway", "_analyze_limb_movement", "_analyze_gait_symmetry",
     "_analyze_pose_stability"}

\* the least number of frames an extractor needs for its features: ten frames
\* with both ankles for the stride, the four frames that three zero crossings
\* take, two frames for the symmetry; the speed and the stability measure the
\* steps between frames and need two, the sway and the knee angles one
MinWindow(method) ==
    CASE method = "_analyze_stride_length" -> StrideMinValid
      [] method = "_analyze_step_frequency" -> StepMinCrossings + 1
      [] method = "_analyze_gait_symmetry" -> SymmetryMinFrames
      [] method = "_analyze_walking_speed" -> 2
      [] method = "_analyze_pose_stability" -> 2
      [] OTHER -> 1

\* every feature of the dict is the number zero
AllZero(features) == \A k \in DOMAIN features : ~features[k].nan /\ features[k].value = 0

\* C17: an extractor called on a window shorter than its minimum, the empty
\* and the one-frame window among them, returns zero for every feature of its
\* dict, and no NaN.
C17_ShortWindowDefault ==
    (probe.method \in ExtractorMethods /\ Len(probe.window.keypoints) < MinWindow(probe.method))
        => AllZero(probe.returned)

\* --- C18 ------------------------------------------------------------------

\* the frames of the window in which the keypoints are above the confidence floor
ConfidentFrames(keypoints) ==
    Cardinality({i \in 1..Len(keypoints) : \A j \in 0..(NumSlots - 1) : Confident(keypoints[i], j)})

\* C18: an extractor called on a window whose keypoints are above the 0.5
\* floor in fewer frames than its minimum reports zero for every feature: no
\* feature is computed from keypoints below the floor, and none is NaN.
C18_ConfidenceFloor ==
    (probe.method \in ExtractorMethods
       /\ ConfidentFrames(probe.window.keypoints) < MinWindow(probe.method))
        => AllZero(probe.returned)

\* ---------------------------------------------------------------------------
\* The loitering decision on long windows
\* ---------------------------------------------------------------------------

\* frames of a window beyond the minimum duration of the rule
MaxOver == 1

\* how far, in px, the person of a window is displaced
Amplitudes == {0, 1, 5, 10, 11, 12, 20, 49, 50, 51, 60}

\* the calls of _is_loitering that are about to run.  The person of a window
\* of n frames stands at one of two places `a` px apart: it changes place at
\* every frame ("pace") or once, before the last n \div 2 frames ("move").
LoiteringCalls ==
    {[method |-> "window", script |-> script, a |-> a, n |-> n] :
        script \in {"pace", "move"}, a \in Amplitudes,
        n \in (behavior_rules.loitering.min_duration * FPS - 1)
                ..(behavior_rules.loitering.min_duration * FPS + MaxOver)}

\* the history of a call, at0 and at1 being the pose_data at the two places
LoiteringHistory(script, n, at0, at1) ==
    Listed([i \in 1..n |->
        IF (script = "pace" /\ i % 2 = 0) \/ (script = "move" /\ i > n - n \div 2)
        THEN [at1 EXCEPT !.frame_idx = i, !.timestamp = i]
        ELSE [at0 EXCEPT !.frame_idx = i, !.timestamp = i]])

IsLoitering ==
    /\ probe.method = "window"
    /\ "a" \in DOMAIN probe
    /\ \E at0 \in {PoseData(0, PersonId("cam1", 0), Pose("stand", 0, 0))},
          at1 \in {PoseData(0, PersonId("cam1", 0), Pose("stand", probe.a, 0))} :
          \E history \in {LoiteringHistory(probe.script, probe.n, at0, at1)} :
             probe' = [method |-> "_is_loitering", script |-> probe.script, a |-> probe.a,
                       n |-> probe.n, returned |-> is_loitering(history)]
    /\ ProbeUnchanged

InitLoitering == InitState({"behavior"}, LoiteringCalls)

NextLoitering == IsLoitering

SpecLoitering == InitLoitering /\ [][NextLoitering]_vars

\* the window: its average displacement between consecutive frames is below
\* the movement threshold (every step of "pace" is a px long, "move" has one
\* step of a px among n - 1)
MovementIsBelow(script, a, n) ==
    IF script = "pace" THEN a < behavior_rules.loitering.movement_threshold
    ELSE a < behavior_rules.loitering.movement_threshold * (n - 1)

\* the window: the sum of the variances of x and y is below the variance
\* threshold (n \div 2 positions at a, the others at 0: a^2 h (n - h) / n^2)
VarianceIsBelow(a, n) ==
    ProdLess(a * a, (n \div 2) * (n - n \div 2),
             behavior_rules.loitering.position_variance_threshold, n * n)

\* C19: on a window of at least min_duration * 30 frames _is_loitering returns
\* True iff the average displacement is below the movement threshold and the
\* summed variance of the positions below the variance threshold; it returns
\* False when every step is longer than the movement threshold, and True when
\* the position is constant.
C19_LoiteringDecision ==
    (probe.method = "_is_loitering" /\ probe.n >= behavior_rules.loitering.min_duration * FPS) =>
        /\ probe.returned <=> (MovementIsBelow(probe.script, probe.a, probe.n)
                                 /\ VarianceIsBelow(probe.a, probe.n))
        /\ (probe.script = "pace" /\ probe.a > behavior_rules.loitering.movement_threshold)
              => ~probe.returned
        /\ probe.a = 0 => probe.returned

\* C19, its case: a person who moves once by 10 px within a window of the
\* minimum length loiters.
C19_MovedOnceLoiters ==
    /\ probe.method = "_is_loitering"
    /\ probe.script = "move"
    /\ probe.a = 10
    /\ probe.n = behavior_rules.loitering.min_duration * FPS
    /\ probe.returned

\* ---------------------------------------------------------------------------
\* The fighting decision
\* ---------------------------------------------------------------------------

\* the upright person drawn at scale / 4 of its size
Scaled(scale) ==
    Listed([i \in 1..Len(StandRows) |->
        <<(StandRows[i][1] * scale) \div 4, (StandRows[i][2] * scale) \div 4, StandRows[i][3]>>])

\* how far, in px, the person of a window jumps between two frames
Swings == {0, 5, 6, 50, 51, 60, 100, 101, 102, 110, 150}

\* the frames of a window in which the person jumps
BurstLen == 45

\* the calls of _is_fighting that are about to run.  The person of a window
\* of n frames, drawn at scale / 4, jumps sideways by `swing` px and back:
\* at every frame ("steady") or during the last BurstLen frames ("bursts").
FightingCalls ==
    {[method |-> "window", script |-> script, swing |-> swing, scale |-> scale, n |-> n] :
        script \in {"steady", "bursts"}, swing \in Swings, scale \in {2, 3, 4},
        n \in (behavior_rules.fighting.min_duration * FPS - 1)
                ..(behavior_rules.fighting.min_duration * FPS + MaxOver)}

\* the history of a call, at0 and at1 being the pose_data at the two places
FightingHistory(script, n, at0, at1) ==
    Listed([i \in 1..n |->
        IF i % 2 = 0 /\ (script = "steady" \/ i > n - BurstLen)
        THEN [at1 EXCEPT !.frame_idx = i, !.timestamp = i]
        ELSE [at0 EXCEPT !.frame_idx = i, !.timestamp = i]])

IsFighting ==
    /\ probe.method = "window"
    /\ "swing" \in DOMAIN probe
    /\ \E at0 \in {PoseData(0, PersonId("cam1", 0), Scaled(probe.scale))},
          at1 \in {PoseData(0, PersonId("cam1", 0), Shift(Scaled(probe.scale), probe.swing, 0))} :
          \E history \in {FightingHistory(probe.script, probe.n, at0, at1)} :
             probe' = [method |-> "_is_fighting", script |-> probe.script, swing |-> probe.swing,
                       scale |-> probe.scale, n |-> probe.n, returned |-> is_fighting(history)]
    /\ ProbeUnchanged

InitFighting == InitState({"behavior"}, FightingCalls)

NextFighting == IsFighting

SpecFighting == InitFighting /\ [][NextFighting]_vars

\* the pairs of consecutive frames of recent_frames
RecentPairs == behavior_rules.fighting.min_duration * FPS - 1

\* the pairs of consecutive frames of recent_frames between which the person
\* jumps: all of them, or those of the last BurstLen frames and the one
\* before them when the first of these frames is a jump
JumpPairs(script, n) ==
    IF script = "steady" THEN RecentPairs
    ELSE BurstLen - 1 + (IF (n - BurstLen + 1) % 2 = 0 THEN 1 ELSE 0)

\* the window: the mean of the motion scores is above motion_threshold (the
\* shoulders and the elbows are the four confident upper-body joints, each
\* moving by swing px at a jump)
MotionIsAbove(swing, jumps) ==
    4 * swing * jumps > behavior_rules.fighting.motion_threshold * RecentPairs

\* the window: the variance of the motion scores is above the second threshold
MotionVarianceIsAbove(swing, jumps) ==
    16 * swing * swing * jumps * (RecentPairs - jumps)
      > behavior_rules.fighting.pose_variance_threshold * RecentPairs * RecentPairs

\* the window: the pose instability is above 500 (np.var of the distances of
\* the confident keypoints from their centroid is about 1009 at full size,
\* 572 at three quarters and 253 at one half, whatever the place)
InstabilityIsAbove(scale) == scale >= 3

\* C20: _is_fighting returns True only if the mean upper-body motion over the
\* window exceeds motion_threshold and the variance of the motion exceeds
\* pose_variance_threshold and the pose instability exceeds 500; motion above
\* its threshold with an instability of at most 500 returns False.
C20_FightingThreeWayAnd ==
    (probe.method = "_is_fighting" /\ probe.n >= behavior_rules.fighting.min_duration * FPS) =>
        /\ probe.returned <=> (/\ MotionIsAbove(probe.swing, JumpPairs(probe.script, probe.n))
                               /\ MotionVarianceIsAbove(probe.swing, JumpPairs(probe.script, probe.n))
                               /\ InstabilityIsAbove(probe.scale))
        /\ (MotionIsAbove(probe.swing, JumpPairs(probe.script, probe.n))
              /\ ~InstabilityIsAbove(probe.scale)) => ~probe.returned

\* C20, its case: bursts of 110 px jumps of a person at full size are a fight.
C20_BurstsAreFighting ==
    /\ probe.method = "_is_fighting"
    /\ probe.script = "bursts"
    /\ probe.swing = 110
    /\ probe.scale = 4
    /\ probe.n = behavior_rules.fighting.min_duration * FPS
    /\ probe.returned

\* ---------------------------------------------------------------------------
\* The fall decision
\* ---------------------------------------------------------------------------

\* how far, in px, the person of a window sinks at every frame
Drops == 0..11

\* the calls of _detect_fall that are about to run.  The person of a window of
\* n frames sinks by `drop` px per frame; in the last frame the person stands
\* or, when `tilted`, lies on the side with the hips at the same height.
FallCalls ==
    {[method |-> "fall", drop |-> drop, tilted |-> tilted, n |-> n] :
        drop \in Drops, tilted \in BOOLEAN, n \in 9..(10 + MaxOver)}

\* what the hips of the lying person are above those of the upright one
LyingRise ==
    (StandRows[keypoint_map.left_hip + 1][2] + StandRows[keypoint_map.right_hip + 1][2]
       - StandRows[keypoint_map.left_hip + 1][1] - StandRows[keypoint_map.right_hip + 1][1]) \div 2

\* the history of a call
FallHistory(drop, tilted, n) ==
    Listed([i \in 1..n |->
        IF i = n /\ tilted
        THEN PoseData(i, PersonId("cam1", 0), Pose("lying", 0, drop * i + LyingRise))
        ELSE PoseData(i, PersonId("cam1", 0), Pose("stand", 0, drop * i))])

\* _detect_fall on the window of the call
FallReturned(drop, tilted, n, call) ==
    [method |-> "_detect_fall", drop |-> drop, tilted |-> tilted, n |-> n, call |-> call,
     returned |-> detect_fall(FallHistory(drop, tilted, n))]

DetectFall ==
    /\ probe.method = "fall"
    /\ probe' = FallReturned(probe.drop, probe.tilted, probe.n, 1)
    /\ ProbeUnchanged

\* the same person once more, sinking faster or lying in the last frame
DetectFallAgain ==
    /\ probe.method = "_detect_fall"
    /\ probe.call = 1
    /\ \E drop \in Drops, tilted \in BOOLEAN :
          /\ drop >= probe.drop
          /\ probe.tilted => tilted
          /\ (drop > probe.drop \/ tilted # probe.tilted)
          /\ probe' = FallReturned(drop, tilted, probe.n, 2)
    /\ ProbeUnchanged

InitFall == InitState({"behavior"}, FallCalls)

NextFall == DetectFall \/ DetectFallAgain

SpecFall == InitFall /\ [][NextFall]_vars

\* the window: vertical_velocity is above the threshold (the hips sink by
\* 9 * drop px along the ten frames of recent, a third of a second)
SinksFast(drop) == 9 * drop * FPS > behavior_rules.falling.vertical_velocity_threshold * 10

\* the severity tiers in their order
SeverityTier(severity) ==
    CASE severity = "minor" -> 0
      [] severity = "moderate" -> 1
      [] severity = "severe" -> 2

\* C21: from a window with exactly one true indicator (velocity alone or
\* body angle alone) to the window with both, the severity tier of
\* _detect_fall strictly increases and the outcome changes from no event to
\* an event.
C21_SecondIndicatorRaises ==
    [][(/\ probe.method = "_detect_fall"
        /\ probe'.method = "_detect_fall"
        /\ probe.n >= 10
        /\ SinksFast(probe.drop) # probe.tilted
        /\ SinksFast(probe'.drop) /\ probe'.tilted)
       => (/\ ~probe.returned.fired
           /\ probe'.returned.fired
           /\ SeverityTier(probe'.returned.severity) > SeverityTier(probe.returned.severity))]_vars

\* ---------------------------------------------------------------------------
\* A stream of alerting batches
\* ---------------------------------------------------------------------------

\* analyze_behavior calls of a stream
MaxStream == 4

\* the seconds between two batches of a stream
StreamSteps == {30, 60}

\* the cameras of the stream send a batch of three rushing people each
StreamBatches == {ScRush, ScRushCam2}

\* The behaviour service under an unbroken stream: a batch, then 30 or 60
\* seconds, then the next batch.
StreamBatch ==
    /\ lastOp.op # "analyze_behavior"
    /\ \E sc \in StreamBatches : AnalyzeBehavior(sc)

StreamPause ==
    /\ lastOp.op = "analyze_behavior"
    /\ \E d \in StreamSteps : Tick(d)

InitStream == InitBudget({"behavior"}, {[method |-> "none"]}, MaxStream)

NextStream == StreamBatch \/ StreamPause

SpecStream == InitStream /\ [][NextStream]_vars

\* the alert-worthy events of a result
QualifyingKeys(behaviors, camera_id) ==
    {AlertKey(behaviors[i], camera_id) : i \in {j \in 1..Len(behaviors) : Qualifies(behaviors[j])}}

\* C22: the time stored for a key is the time of the last alert emitted for
\* it: a call stores its own time for the keys it emits an alert for and
\* leaves every other entry as it was, suppressed events included; and an
\* event whose key has no entry or an entry at least cooldown_duration old is
\* answered by an alert.
C22_CooldownFromEmitted ==
    [][(lastOp'.op = "analyze_behavior" /\ result'.status = "success") =>
          /\ \A key \in DOMAIN alert_cooldown' :
                IF AlertsWithKey(result'.alerts, key) # {}
                THEN alert_cooldown'[key] = now
                ELSE key \in DOMAIN alert_cooldown /\ alert_cooldown'[key] = alert_cooldown[key]
          /\ \A key \in QualifyingKeys(result'.behaviors_detected, lastOp'.camera_id) :
                (key \notin DOMAIN alert_cooldown \/ now - alert_cooldown[key] >= cooldown_duration)
                   => AlertsWithKey(result'.alerts, key) # {}]_vars

\* C22, its case: camera 1 alone has sent batches since second 0, at least
\* one of them suppressed, and the batch of second 120 raises an alert again.
C22_AlertedAgain ==
    /\ lastOp.op = "analyze_behavior"
    /\ now = cooldown_duration
    /\ budget.batches <= MaxStream - 3
    /\ DOMAIN alert_log = {<<"mass_movement", "group", "cam1">>}
    /\ alert_log[<<"mass_movement", "group", "cam1">>] = <<0, cooldown_duration>>
    /\ AlertsWithKey(result.alerts, <<"mass_movement", "group", "cam1">>) # {}
    /\ alert_cooldown[<<"mass_movement", "group", "cam1">>] = now

\* C23: the behaviors_detected of a batch hold at most one event for every
\* pair of a behaviour type and an entity (a person, or the group), however
\* many frames of the entity the batch has.
C23_OneEventPerEntity ==
    result.status = "success" =>
       \A i \in 1..Len(result.behaviors_detected), j \in 1..Len(result.behaviors_detected) :
          (/\ result.behaviors_detected[i].type = result.behaviors_detected[j].type
           /\ result.behaviors_detected[i].person_id = result.behaviors_detected[j].person_id)
             => i = j

\* ---------------------------------------------------------------------------
\* The erratic-movement decision
\* ---------------------------------------------------------------------------

\* the px of a slow step of a path
PathStep == 10

\* the calls of _detect_erratic_movement that are about to run.  The person of
\* a window of n frames stands still and then makes `moves` steps along x, of
\* PathStep px and, every second one, `surge` px more; it turns back at each
\* of the first `turns` steps after the first one.
ErraticCalls ==
    {[method |-> "path", moves |-> moves, turns |-> turns, surge |-> surge, n |-> n] :
        moves \in {9, 10, 40, 60, 120}, turns \in 0..3, surge \in {0, 24, 26},
        n \in (behavior_rules.erratic_movement.min_duration * FPS - 1)
                ..(behavior_rules.erratic_movement.min_duration * FPS + MaxOver)}

\* the j-th step of a path
PathMove(j, turns, surge) ==
    (IF Min2(j - 1, turns) % 2 = 0 THEN 1 ELSE -1) * (PathStep + (IF j % 2 = 0 THEN surge ELSE 0))

\* where the person is after m steps
PathX(m, turns, surge) == SumFn([j \in 1..m |-> PathMove(j, turns, surge)], 1, m)

\* the history of a call
ErraticHistory(moves, turns, surge, n) ==
    Listed([i \in 1..n |->
        PoseData(i, PersonId("cam1", 0),
                 Pose("stand", PathX(Max2(i - (n - moves), 0), turns, surge), 0))])

DetectErraticMovement ==
    /\ probe.method = "path"
    /\ \E history \in {ErraticHistory(probe.moves, probe.turns, probe.surge, probe.n)} :
          probe' = [method |-> "_detect_erratic_movement", moves |-> probe.moves,
                    turns |-> probe.turns, surge |-> probe.surge, n |-> probe.n,
                    returned |-> detect_erratic_movement(history)]
    /\ ProbeUnchanged

InitErratic == InitState({"behavior"}, ErraticCalls)

NextErratic == DetectErraticMovement

SpecErratic == InitErratic /\ [][NextErratic]_vars

\* the path: direction_change_rate, turns / moves * 300, is above the threshold
TurnRateIsAbove(turns, moves) ==
    turns * 10 * FPS > behavior_rules.erratic_movement.direction_change_threshold * moves

\* the path: the variance of the speeds is above the threshold (moves \div 2
\* of the steps are surge px longer than the others)
SpeedVarianceIsAbove(surge, moves) ==
    surge * surge * (moves \div 2) * (moves - moves \div 2)
      > behavior_rules.erratic_movement.speed_variance_threshold * moves * moves

\* C24 as stated: on a full window _detect_erratic_movement returns True iff
\* the direction-change rate is above its threshold or the speed variance is
\* above its threshold.
C24_ErraticIsOr ==
    (probe.method = "_detect_erratic_movement"
       /\ probe.n >= behavior_rules.erratic_movement.min_duration * FPS) =>
        (probe.returned <=> (\/ TurnRateIsAbove(probe.turns, probe.moves)
                             \/ SpeedVarianceIsAbove(probe.surge, probe.moves)))

\* C24, amended: on a full window with at least 10 significant displacements
\* _detect_erratic_movement returns True iff the direction-change rate is
\* above its threshold or the speed variance is above its threshold, either
\* alone sufficing; with fewer than 10 significant displacements it returns
\* False.
C24_ErraticIsOrGiven10 ==
    (probe.method = "_detect_erratic_movement"
       /\ probe.n >= behavior_rules.erratic_movement.min_duration * FPS) =>
        (probe.returned <=> (/\ probe.moves >= 10
                             /\ (\/ TurnRateIsAbove(probe.turns, probe.moves)
                                 \/ SpeedVarianceIsAbove(probe.surge, probe.moves))))

\* C24, its case: a straight path of 60 steps of uneven speed is erratic by
\* the speed variance alone.
C24_VarianceAlone ==
    /\ probe.method = "_detect_erratic_movement"
    /\ probe.n = behavior_rules.erratic_movement.min_duration * FPS
    /\ probe.moves = 60
    /\ probe.turns = 0
    /\ probe.surge = 26
    /\ probe.returned

\* ---------------------------------------------------------------------------
\* The concealment decision
\* ---------------------------------------------------------------------------

\* the upright person with the given wrists, both confident
WithWrists(left, right) ==
    [StandRows EXCEPT ![keypoint_map.left_wrist + 1] = <<left[1], left[2], 90>>,
                      ![keypoint_map.right_wrist + 1] = <<right[1], right[2], 90>>]

\* the person with the arms spread, a hand (or both) 30 px beside the hip, and
\* a hand (or both) on the chest
GesturePose(gesture, hands) ==
    CASE gesture = "none" -> WithWrists(<<200, 120>>, <<-100, 120>>)
      [] gesture = "pocket" -> WithWrists(<<95, 120>>, IF hands = 2 THEN <<5, 120>> ELSE <<-100, 120>>)
      [] gesture = "jacket" -> WithWrists(<<70, 70>>, IF hands = 2 THEN <<30, 70>> ELSE <<-100, 120>>)

\* the calls of _detect_concealment that are about to run.  The person of a
\* history of n frames makes the gesture in the last `held` frames.
ConcealmentCalls ==
    {[method |-> "gesture", gesture |-> gesture, hands |-> hands, held |-> held, n |-> n] :
        gesture \in {"pocket", "jacket"}, hands \in {1, 2}, held \in {0, 19, 25, 28, 37, 54, 55, 60},
        n \in {31, 40, 60} \cup ((behavior_rules.concealment.concealment_duration_threshold * FPS - 1)
                                   ..(behavior_rules.concealment.concealment_duration_threshold * FPS + MaxOver))}

\* the history of a call, idle and busy being the pose_data without and with
\* the gesture
ConcealmentHistory(n, held, idle, busy) ==
    Listed([i \in 1..n |->
        IF i > n - held THEN [busy EXCEPT !.frame_idx = i, !.timestamp = i]
        ELSE [idle EXCEPT !.frame_idx = i, !.timestamp = i]])

\* what _detect_concealment returns on history: None, or location and confidence
ConcealmentReturned(history, concealment) ==
    IF ~concealment.fired THEN [fired |-> FALSE, location |-> "none", confidence |-> 0]
    ELSE [fired |-> TRUE, location |-> concealment.location,
          confidence |-> ConcealmentConfidence(
                             concealment,
                             Min2(Len(history), behavior_rules.concealment.concealment_duration_threshold * FPS))]

DetectConcealment ==
    /\ probe.method = "gesture"
    /\ \E idle \in {PoseData(0, PersonId("cam1", 0), GesturePose("none", 0))},
          busy \in {PoseData(0, PersonId("cam1", 0), GesturePose(probe.gesture, probe.hands))} :
          \E history \in {ConcealmentHistory(probe.n, probe.held, idle, busy)} :
             probe' = [method |-> "_detect_concealment", gesture |-> probe.gesture,
                       hands |-> probe.hands, held |-> probe.held, n |-> probe.n,
                       returned |-> ConcealmentReturned(history, detect_concealment(history))]
    /\ ProbeUnchanged

InitConcealment == InitState({"behavior"}, ConcealmentCalls)

NextConcealment == DetectConcealment

SpecConcealment == InitConcealment /\ [][NextConcealment]_vars

\* the frames of the window actually evaluated
WindowLen(n) == Min2(n, behavior_rules.concealment.concealment_duration_threshold * FPS)

\* the tally of the location of the gesture over the window
GestureTally(hands, held, n) == hands * Min2(held, WindowLen(n))

\* C25: _detect_concealment emits iff the tally of a location exceeds 60% of
\* the length of the window actually evaluated; the event names the location
\* and its confidence is min(tally / window length, 1.0).
C25_ConcealmentThreshold ==
    probe.method = "_detect_concealment" =>
        /\ probe.returned.fired
              <=> 10 * GestureTally(probe.hands, probe.held, probe.n) > 6 * WindowLen(probe.n)
        /\ probe.returned.fired =>
              /\ probe.returned.location = probe.gesture
              /\ probe.returned.confidence
                    = Min2((100 * GestureTally(probe.hands, probe.held, probe.n)) \div WindowLen(probe.n), 100)

\* ---------------------------------------------------------------------------
\* Batches too short to be analysed
\* ---------------------------------------------------------------------------

\* batches of no frame and of one frame (ScTwo has two)
ScNone == Batch("none", "cam1", 0, <<"lie", "stand">>, NoDefect)
ScOne == Batch("one", "cam1", 1, <<"lie", "stand">>, NoDefect)

ShortBatches == {ScNone, ScOne, ScTwo}

\* The behaviour service under short batches among batches that fill the
\* buffers and the cooldown store.
NextShort ==
    \/ \E sc \in ShortBatches \cup {ScFall, ScLie, ScRushCam2} : AnalyzeBehavior(sc)
    \/ \E d \in TickSteps : Tick(d)

SpecShort == Init /\ [][NextShort]_vars

\* C26: analyze_behavior with fewer than 3 frames returns the status
\* 'insufficient_frames' with no events, no alerts and the threat level
\* 'low', and leaves the buffers and the cooldown store as they were.
C26_ShortBatchNoEffect ==
    [][(lastOp'.op = "analyze_behavior" /\ lastOp'.batch \in {sc.name : sc \in ShortBatches}) =>
          /\ result'.status = "insufficient_frames"
          /\ result'.behaviors_detected = << >>
          /\ result'.alerts = << >>
          /\ result'.threat_level = "low"
          /\ behavior_history' = behavior_history
          /\ alert_cooldown' = alert_cooldown]_vars

\* C26, its case: an empty batch arrived at a service that tracks people and
\* holds a cooldown entry.
C26_EmptyBatchAfterAlert ==
    /\ lastOp.op = "analyze_behavior"
    /\ lastOp.batch = "none"
    /\ result.status = "insufficient_frames"
    /\ DOMAIN behavior_history # {}
    /\ DOMAIN alert_cooldown # {}

\* ---------------------------------------------------------------------------
\* Gait readiness
\* ---------------------------------------------------------------------------

\* frames of the long track of the readiness runs
MaxReady == 31

\* analyze_gait_sequence returned None
NoResult == [returned_none |-> TRUE]

\* an analysis that asks for more than min_frames frames
analyze_gait_sequence_more(gb, person_id) ==
    IF person_id \notin DOMAIN gb THEN {NoResult}
    ELSE IF Len(gb[person_id]) <= min_frames
         THEN {[status |-> "insufficient_data", frames_available |-> Len(gb[person_id]),
                frames_required |-> min_frames]}
    ELSE {[status |-> s] : s \in {"success", "extraction_failed", "error"}}

\* analyze_gait_sequence(person_id) on the buffers gb: what it can return.
\* Of the analysis of a ready buffer (lines 127-149) only the status is kept:
\* 'success', 'extraction_failed' when no features come back, 'error' when
\* an exception is caught.
analyze_gait_sequence(gb, person_id) ==
    IF person_id \notin DOMAIN gb THEN {NoResult}
    ELSE IF Len(gb[person_id]) < min_frames
         THEN {[status |-> "insufficient_data", frames_available |-> Len(gb[person_id]),
                frames_required |-> min_frames]}
    ELSE {[status |-> s] : s \in {"success", "extraction_failed", "error"}}

\* a caller calls analyze_gait_sequence(person_id)
AnalyzeGaitSequence(person_id) ==
    /\ service = "gait"
    /\ \E returned \in analyze_gait_sequence(gait_buffer, person_id) :
          probe' = [method |-> "analyze_gait_sequence", person_id |-> person_id, returned |-> returned]
    /\ lastOp' = [op |-> "analyze_gait_sequence", person_id |-> person_id]
    /\ UNCHANGED <<gait_buffer, gait_ret, gait_appended, now, service, budget, calls, stats, streams>>
    /\ BehaviorUnchanged

\* The gait service under a long track "g1", a short track "g2" with frames
\* of no usable detection among the good ones, clears, and analyses of these
\* tracks and of the unseen "g3".
NextGait ==
    \/ /\ TrackLen("g1") < MaxReady
       /\ AddFrameToBuffer("g1", GaitGood, TrackLen("g1") + 1)
    \/ /\ TrackLen("g2") < MaxShortTrack
       /\ \E frame \in {GaitGood, GaitEmpty} : AddFrameToBuffer("g2", frame, TrackLen("g2") + 1)
    \/ \E person_id \in {"g1", "g2"} : ClearBuffer(person_id)
    \/ \E person_id \in GaitIds : AnalyzeGaitSequence(person_id)

InitGait == InitOf({"gait"})

SpecGait == InitGait /\ [][NextGait]_vars

\* C27: get_buffer_status reports an id ready exactly when at least
\* min_frames frames were appended to its buffer since its creation or last
\* clear; analyze_gait_sequence returns 'insufficient_data' exactly when the
\* id is reported and not ready, and None exactly when it is not reported.
C27_ReadinessAgrees ==
    /\ DOMAIN get_buffer_status(gait_buffer) = DOMAIN gait_appended
    /\ \A p \in DOMAIN get_buffer_status(gait_buffer) :
          get_buffer_status(gait_buffer)[p].ready_for_analysis <=> Len(gait_appended[p]) >= 30
    /\ lastOp.op = "analyze_gait_sequence" =>
          /\ probe.returned = NoResult <=> probe.person_id \notin DOMAIN get_buffer_status(gait_buffer)
          /\ ("status" \in DOMAIN probe.returned /\ probe.returned.status = "insufficient_data")
                <=> /\ probe.person_id \in DOMAIN get_buffer_status(gait_buffer)
                    /\ ~get_buffer_status(gait_buffer)[probe.person_id].ready_for_analysis

\* C27, its case: the track that holds exactly min_frames frames has been
\* analysed while a shorter one is reported not ready.
C27_AnalysedAtThirty ==
    /\ lastOp.op = "analyze_gait_sequence"
    /\ probe.person_id = "g1"
    /\ "g1" \in DOMAIN gait_buffer
    /\ Len(gait_buffer["g1"]) = min_frames
    /\ probe.returned = [status |-> "success"]
    /\ "g2" \in DOMAIN gait_buffer
    /\ ~get_buffer_status(gait_buffer)["g2"].ready_for_analysis

\* ---------------------------------------------------------------------------
\* Alert ids
\* ---------------------------------------------------------------------------

\* two people of one camera fall in the same batch
ScFallTwo == Batch("fall_two", "cam1", 31, <<"fall", "fall">>, NoDefect)

\* The behaviour service under batches that raise one or two alerts.
NextIds ==
    \/ \E sc \in {ScFallTwo, ScFall, ScLie, ScRush, ScRushCam2} : AnalyzeBehavior(sc)
    \/ \E d \in TickSteps : Tick(d)

SpecIds == Init /\ [][NextIds]_vars

\* C28: any two distinct alerts of a result carry different ids.
C28_AlertIdsUnique ==
    result.status = "success" =>
       \A i \in 1..Len(result.alerts), j \in 1..Len(result.alerts) :
          result.alerts[i].id = result.alerts[j].id => i = j

\* ---------------------------------------------------------------------------
\* The stream processor (stream_processor.py)
\* ---------------------------------------------------------------------------
\* streams.configs holds the stream_config dicts ever created, a thread or a
\* dict of the processor referring to them by their index; streams.threads
\* holds the capture threads ever started, the i-th for the i-th config.
\* frame_buffers maps a camera to the number of frames of its deque.  The
\* processor has been initialized (is_running is True) and is not shut down.

max_reconnect_attempts == 3

\* start_stream calls of a run that start a stream
MaxStarts == 2

\* frames counted in a frame buffer
MaxFrames == 2

StreamCameras == {"cam1"}

ThreadIds == 1..Len(streams.threads)

\* stream_config["status"] of the dict c
StatusOf(c) == streams.configs[c].status

\* stream_config["status"] = status on the dict c
WithStatus(configs, c, status) == [configs EXCEPT ![c].status = status]

\* everything but the stream processor and the record of the last step
StreamsOnly ==
    UNCHANGED <<behavior_history, alert_cooldown, now, result, gait_buffer, gait_ret, appended,
                gait_appended, alert_log, evals, service, budget, calls, stats, probe>>

\* the thread t moves to pc
Moved(t, pc) == [streams.threads EXCEPT ![t].pc = pc]

\* the caller of the processor is in no call
Idle == lastOp.op \notin {"stop_stream_marked", "stop_stream_unbuffered"}

\* start_stream(camera_id, ...): False for an active camera; otherwise the
\* buffer, the stream_config and the capture thread are created
StartStream(camera_id) ==
    /\ service \in {"stream", "rtsp"}
    /\ Idle
    /\ Len(streams.threads) < MaxStarts
    /\ IF camera_id \in DOMAIN streams.active_streams
       THEN /\ lastOp' = [op |-> "start_stream", camera_id |-> camera_id, returned |-> FALSE]
            /\ UNCHANGED streams
       ELSE /\ lastOp' = [op |-> "start_stream", camera_id |-> camera_id, returned |-> TRUE]
            /\ streams' =
                 [active_streams |-> Put(streams.active_streams, camera_id, Len(streams.configs) + 1),
                  frame_buffers |-> Put(streams.frame_buffers, camera_id, 0),
                  processing_threads |-> Put(streams.processing_threads, camera_id,
                                             Len(streams.threads) + 1),
                  configs |-> Append(streams.configs, [camera_id |-> camera_id, status |-> "starting"]),
                  threads |-> Append(streams.threads,
                                     [camera_id |-> camera_id, rtsp |-> service = "rtsp",
                                      pc |-> IF service = "rtsp" THEN "rtsp_config" ELSE "config",
                                      stream_config |-> 0, base_config |-> 0,
                                      reconnect_attempts |-> 0, stopped |-> FALSE])]
    /\ StreamsOnly

\* stop_stream(camera_id) of an inactive camera
StopInactive(camera_id) ==
    /\ service \in {"stream", "rtsp"}
    /\ Idle
    /\ camera_id \notin DOMAIN streams.active_streams
    /\ lastOp.op # "stop_stream"
    /\ lastOp' = [op |-> "stop_stream", camera_id |-> camera_id, returned |-> FALSE]
    /\ UNCHANGED streams
    /\ StreamsOnly

\* the thread t is in the capture loop of an active stream
Capturing(t) ==
    /\ streams.threads[t].pc \in {"while", "read", "append"}
    /\ StatusOf(streams.threads[t].base_config) = "active"

\* stop_stream, line 125: the stream is marked as stopping
StopMark(camera_id) ==
    /\ service \in {"stream", "rtsp"}
    /\ Idle
    /\ camera_id \in DOMAIN streams.active_streams
    /\ lastOp' = [op |-> "stop_stream_marked", camera_id |-> camera_id,
                  running |-> Capturing(streams.processing_threads[camera_id])]
    /\ streams' = [streams EXCEPT
                     !.configs = WithStatus(@, streams.active_streams[camera_id], "stopping")]
    /\ StreamsOnly

\* stop_stream, lines 128-129: the frame buffer is deleted
StopUnbuffer ==
    /\ lastOp.op = "stop_stream_marked"
    /\ lastOp' = [lastOp EXCEPT !.op = "stop_stream_unbuffered"]
    /\ streams' = [streams EXCEPT !.frame_buffers = Del(@, lastOp.camera_id)]
    /\ StreamsOnly

\* stop_stream, lines 131-137: the thread and the stream are forgotten and
\* True is returned; `stopped` records that the stream of the thread was
\* stopped while the thread was capturing
StopForget ==
    /\ lastOp.op = "stop_stream_unbuffered"
    /\ lastOp' = [op |-> "stop_stream", camera_id |-> lastOp.camera_id, returned |-> TRUE]
    /\ streams' = [streams EXCEPT
                     !.processing_threads = Del(@, lastOp.camera_id),
                     !.active_streams = Del(@, lastOp.camera_id),
                     !.threads = [@ EXCEPT ![streams.processing_threads[lastOp.camera_id]].stopped =
                                              lastOp.running]]
    /\ StreamsOnly

\* what a step of a thread leaves alone
ThreadOnly == UNCHANGED lastOp /\ StreamsOnly

\* RTSPStreamProcessor._capture_stream, lines 444-446: the KeyError of a
\* forgotten stream ends the thread
RtspConfig(t) ==
    /\ t \in ThreadIds
    /\ streams.threads[t].pc = "rtsp_config"
    /\ streams' = [streams EXCEPT !.threads =
          IF streams.threads[t].camera_id \in DOMAIN streams.active_streams
          THEN [@ EXCEPT ![t].stream_config = streams.active_streams[streams.threads[t].camera_id],
                         ![t].pc = "rtsp_while"]
          ELSE Moved(t, "done")]
    /\ ThreadOnly

\* line 448: while self.is_running and stream_config["status"] != "stopping"
RtspWhile(t) ==
    /\ t \in ThreadIds
    /\ streams.threads[t].pc = "rtsp_while"
    /\ streams' = [streams EXCEPT !.threads =
          Moved(t, IF StatusOf(streams.threads[t].stream_config) # "stopping" THEN "rtsp_open"
                   ELSE "done")]
    /\ ThreadOnly

\* lines 449-466: a connection attempt; connected, the status is active, the
\* counter 0 and the capture of the base class begins
RtspOpen(t) ==
    /\ t \in ThreadIds
    /\ streams.threads[t].pc = "rtsp_open"
    /\ \E opened \in BOOLEAN :
          streams' =
             IF opened
             THEN [streams EXCEPT
                     !.configs = WithStatus(@, streams.threads[t].stream_config, "active"),
                     !.threads = [@ EXCEPT ![t].reconnect_attempts = 0, ![t].pc = "config"]]
             ELSE [streams EXCEPT !.threads = Moved(t, "rtsp_except")]
    /\ ThreadOnly

\* lines 468-479: the handler of a failed attempt and of every exception of
\* the capture
RtspExcept(t) ==
    /\ t \in ThreadIds
    /\ streams.threads[t].pc = "rtsp_except"
    /\ streams' =
          IF streams.threads[t].reconnect_attempts + 1 < max_reconnect_attempts
          THEN [streams EXCEPT
                  !.configs = WithStatus(@, streams.threads[t].stream_config, "reconnecting"),
                  !.threads = [@ EXCEPT ![t].reconnect_attempts = @ + 1, ![t].pc = "rtsp_while"]]
          ELSE [streams EXCEPT
                  !.configs = WithStatus(@, streams.threads[t].stream_config, "error"),
                  !.threads = [@ EXCEPT ![t].reconnect_attempts = @ + 1, ![t].pc = "done"]]
    /\ ThreadOnly

\* where a thread is when StreamProcessor._capture_stream returns
Returned(t) == IF streams.threads[t].rtsp THEN "rtsp_while" ELSE "done"

\* StreamProcessor._capture_stream, line 146: the KeyError of a forgotten
\* stream is raised to the caller
Config(t) ==
    /\ t \in ThreadIds
    /\ streams.threads[t].pc = "config"
    /\ streams' = [streams EXCEPT !.threads =
          IF streams.threads[t].camera_id \in DOMAIN streams.active_streams
          THEN [@ EXCEPT ![t].base_config = streams.active_streams[streams.threads[t].camera_id],
                         ![t].pc = "open"]
          ELSE Moved(t, IF streams.threads[t].rtsp THEN "rtsp_except" ELSE "done")]
    /\ ThreadOnly

\* lines 151-163: the capture is opened and the status set to active, or
\* to error
Open(t) ==
    /\ t \in ThreadIds
    /\ streams.threads[t].pc = "open"
    /\ \E opened \in BOOLEAN :
          streams' =
             IF opened
             THEN [streams EXCEPT
                     !.configs = WithStatus(@, streams.threads[t].base_config, "active"),
                     !.threads = Moved(t, "while")]
             ELSE [streams EXCEPT
                     !.configs = WithStatus(@, streams.threads[t].base_config, "error"),
                     !.threads = Moved(t, Returned(t))]
    /\ ThreadOnly

\* line 168: while self.is_running and stream_config["status"] == "active"
While(t) ==
    /\ t \in ThreadIds
    /\ streams.threads[t].pc = "while"
    /\ streams' = [streams EXCEPT !.threads =
          Moved(t, IF StatusOf(streams.threads[t].base_config) = "active" THEN "read"
                   ELSE Returned(t))]
    /\ ThreadOnly

\* lines 169-174: a frame is read, or not
Read(t) ==
    /\ t \in ThreadIds
    /\ streams.threads[t].pc = "read"
    /\ \E ret \in BOOLEAN :
          streams' = [streams EXCEPT !.threads = Moved(t, IF ret THEN "append" ELSE "while")]
    /\ ThreadOnly

\* lines 183-216: the frame is appended to the buffer of the camera; the
\* KeyError of a deleted buffer is caught in line 218
AppendFrame(t) ==
    /\ t \in ThreadIds
    /\ streams.threads[t].pc = "append"
    /\ streams' =
          IF streams.threads[t].camera_id \in DOMAIN streams.frame_buffers
          THEN [streams EXCEPT
                  !.frame_buffers = [@ EXCEPT ![streams.threads[t].camera_id] = Min2(@ + 1, MaxFrames)],
                  !.threads = Moved(t, "while")]
          ELSE [streams EXCEPT
                  !.configs = WithStatus(@, streams.threads[t].base_config, "error"),
                  !.threads = Moved(t, Returned(t))]
    /\ ThreadOnly

\* a step of the capture thread t
ThreadStep(t) ==
    \/ RtspConfig(t) \/ RtspWhile(t) \/ RtspOpen(t) \/ RtspExcept(t)
    \/ Config(t) \/ Open(t) \/ While(t) \/ Read(t) \/ AppendFrame(t)

InitStreams == InitOf({"stream", "rtsp"})

NextStreams ==
    \/ \E camera_id \in StreamCameras : StartStream(camera_id)
    \/ \E camera_id \in StreamCameras : StopInactive(camera_id)
    \/ \E camera_id \in StreamCameras : StopMark(camera_id)
    \/ StopUnbuffer
    \/ StopForget
    \/ \E t \in 1..MaxStarts : RtspConfig(t)
    \/ \E t \in 1..MaxStarts : RtspWhile(t)
    \/ \E t \in 1..MaxStarts : RtspOpen(t)
    \/ \E t \in 1..MaxStarts : RtspExcept(t)
    \/ \E t \in 1..MaxStarts : Config(t)
    \/ \E t \in 1..MaxStarts : Open(t)
    \/ \E t \in 1..MaxStarts : While(t)
    \/ \E t \in 1..MaxStarts : Read(t)
    \/ \E t \in 1..MaxStarts : AppendFrame(t)

\* A processor of either class under start_stream and stop_stream calls of a
\* client and the steps of the capture threads.
SpecStreams == InitStreams /\ [][NextStreams]_vars

\* the thread t reads a frame
ReadFrame(t) == Read(t) /\ streams'.threads[t].pc = "append"

\* the same, every capture thread being scheduled again and again and a
\* camera that is read again and again delivering a frame
FairStreams ==
    /\ SpecStreams
    /\ \A t \in 1..MaxStarts : WF_vars(ThreadStep(t)) /\ SF_vars(ReadFrame(t))

\* the capture thread t has terminated
Terminated(t) == t \in ThreadIds /\ streams.threads[t].pc = "done"

\* stop_stream has returned True for the stream of the running thread t
Stopped(t) == t \in ThreadIds /\ streams.threads[t].stopped

\* C29: once stop_stream has returned True for a running stream, its capture
\* thread terminates, for a processor of either class and under every
\* interleaving of the stop, of later start_stream calls and of the steps of
\* the thread.
C29_StoppedThreadTerminates == \A t \in 1..MaxStarts : Stopped(t) ~> Terminated(t)

\* the RTSP thread t takes the step that begins at pc
RtspStepFrom(t, pc) ==
    /\ t \in ThreadIds
    /\ streams.threads[t].rtsp
    /\ streams.threads[t].pc = pc
    /\ streams'.threads[t].pc # pc

\* C30: the reconnection of an RTSP capture thread is bounded: a failure
\* that is not the third in a row sets the status to reconnecting and leads
\* back to the loop, the third in a row sets it to error and ends the thread,
\* a successful connection resets the counter, and no connection is
\* attempted while the status is error.
C30_ReconnectionBounded ==
    [][\A t \in 1..MaxStarts :
          /\ RtspStepFrom(t, "rtsp_except") =>
                IF streams'.threads[t].reconnect_attempts < max_reconnect_attempts
                THEN /\ streams'.configs[streams.threads[t].stream_config].status = "reconnecting"
                     /\ streams'.threads[t].pc = "rtsp_while"
                ELSE /\ streams'.configs[streams.threads[t].stream_config].status = "error"
                     /\ streams'.threads[t].pc = "done"
          /\ (RtspStepFrom(t, "rtsp_open") /\ streams'.threads[t].pc = "config") =>
                streams'.threads[t].reconnect_attempts = 0
          /\ RtspStepFrom(t, "rtsp_open") =>
                StatusOf(streams.threads[t].stream_config) # "error"]_vars
=============================================================================
